---- MODULE Spec2Model ----
(***************************************************************************)
(* Foundation Foods query engine (internal/query): relevance-scored search *)
(* over an in-memory corpus, lookup by FDC id, health check, the           *)
(* simplified nutrient projection, and the limit handling of the MCP tool  *)
(* handlers.                                                               *)
(*                                                                         *)
(* Strings are sequences of one-character strings, so that lower-casing,   *)
(* trimming, punctuation removal, prefix and substring tests and           *)
(* strings.Fields are computed character by character as the Go code does. *)
(* Scores (float64 in the code) are exact rationals <<num, den>> in lowest *)
(* terms; every multiplier of the code is a rational (1.5 = 3/2, 0.3 =     *)
(* 3/10, 0.8 = 4/5, 1.3 = 13/10, 1.2 = 6/5, 0.7 = 7/10).                   *)
(***************************************************************************)
EXTENDS Integers, Sequences, FiniteSets, TLC

(***************************************************************************)
(* Package strings                                                         *)
(***************************************************************************)
UpperCase == <<"A","B","C","D","E","F","G","H","I","J","K","L","M","N","O","P","Q","R","S","T","U","V","W","X","Y","Z">>
LowerCase == <<"a","b","c","d","e","f","g","h","i","j","k","l","m","n","o","p","q","r","s","t","u","v","w","x","y","z">>

\* unicode.IsSpace on the characters the model uses
WhiteSpace == {" ", "\t", "\n"}

ToLowerChar(c) ==
    IF \E i \in 1..Len(UpperCase) : UpperCase[i] = c
    THEN LowerCase[CHOOSE i \in 1..Len(UpperCase) : UpperCase[i] = c]
    ELSE c

\* strings.ToLower
ToLower(s) == [i \in 1..Len(s) |-> ToLowerChar(s[i])]

\* strings.TrimSpace
TrimSpace(s) ==
    LET keep == {i \in 1..Len(s) : s[i] \notin WhiteSpace}
    IN  IF keep = {} THEN <<>>
        ELSE LET lo == CHOOSE i \in keep : \A j \in keep : i <= j
                 hi == CHOOSE i \in keep : \A j \in keep : i >= j
             IN  SubSeq(s, lo, hi)

\* strings.ReplaceAll(s, c, "") for a one-character c
RemoveChar(s, c) == SelectSeq(s, LAMBDA x : x # c)

\* strings.HasPrefix
HasPrefix(s, prefix) ==
    /\ Len(prefix) <= Len(s)
    /\ SubSeq(s, 1, Len(prefix)) = prefix

\* strings.Contains
Contains(s, substr) ==
    \E i \in 0..(Len(s) - Len(substr)) : SubSeq(s, i + 1, i + Len(substr)) = substr

\* strings.TrimPrefix
TrimPrefix(s, prefix) ==
    IF HasPrefix(s, prefix) THEN SubSeq(s, Len(prefix) + 1, Len(s)) ELSE s

RECURSIVE FieldsFrom(_, _)
FieldsFrom(s, i) ==
    IF i > Len(s) THEN <<>>
    ELSE IF s[i] \in WhiteSpace THEN FieldsFrom(s, i + 1)
    ELSE LET e == CHOOSE j \in i..Len(s) :
                     /\ \A k \in i..j : s[k] \notin WhiteSpace
                     /\ (j = Len(s) \/ s[j + 1] \in WhiteSpace)
         IN  <<SubSeq(s, i, e)>> \o FieldsFrom(s, e + 1)

\* strings.Fields: the maximal runs of non-space characters, in order
Fields(s) == FieldsFrom(s, 1)

(***************************************************************************)
(* Exact arithmetic for the float64 scores                                 *)
(***************************************************************************)
RECURSIVE GCD(_, _)
GCD(a, b) == IF b = 0 THEN a ELSE GCD(b, a % b)

Rat(n, d) == IF n = 0 THEN <<0, 1>> ELSE LET g == GCD(n, d) IN <<n \div g, d \div g>>
RatMul(r, n, d) == Rat(r[1] * n, r[2] * d)
RatAdd(r, k) == Rat(r[1] + k * r[2], r[2])
RatGT(a, b) == a[1] * b[2] > b[1] * a[2]
RatZero == <<0, 1>>

(***************************************************************************)
(* String literals of the code and of its tests                            *)
(***************************************************************************)
kw_milk == <<"m", "i", "l", "k">>
kw_milkfat == <<"m", "i", "l", "k", "f", "a", "t">>
kw_milk_fat == <<"m", "i", "l", "k", " ", "f", "a", "t">>
kw_cheese == <<"c", "h", "e", "e", "s", "e">>
kw_chicken == <<"c", "h", "i", "c", "k", "e", "n">>
kw_beef == <<"b", "e", "e", "f">>
kw_pork == <<"p", "o", "r", "k">>
kw_bread == <<"b", "r", "e", "a", "d">>
kw_brand == <<"b", "r", "a", "n", "d">>
kw_store == <<"s", "t", "o", "r", "e">>
kw_composite == <<"c", "o", "m", "p", "o", "s", "i", "t", "e">>
kw_mixed == <<"m", "i", "x", "e", "d">>
kw_frozen == <<"f", "r", "o", "z", "e", "n">>
kw_canned == <<"c", "a", "n", "n", "e", "d">>
kw_energy == <<"e", "n", "e", "r", "g", "y">>
kw_kj == <<"k", "j">>
kw_pufa == <<"p", "u", "f", "a", " ">>
kw_vitamin_c == <<"v", "i", "t", "a", "m", "i", "n", " ", "c">>
kw_vitamin_c_total == <<"v", "i", "t", "a", "m", "i", "n", " ", "c", ",", " ", "t", "o", "t", "a", "l", " ", "a", "s", "c", "o", "r", "b", "i", "c", " ", "a", "c", "i", "d">>
dMilkWholeMilkfat == <<"M", "i", "l", "k", ",", " ", "w", "h", "o", "l", "e", ",", " ", "3", ".", "2", "5", "%", " ", "m", "i", "l", "k", "f", "a", "t">>
dCheeseCottage == <<"C", "h", "e", "e", "s", "e", ",", " ", "c", "o", "t", "t", "a", "g", "e", ",", " ", "l", "o", "w", "f", "a", "t", ",", " ", "2", "%", " ", "m", "i", "l", "k", "f", "a", "t">>
dEggs == <<"E", "g", "g", "s", ",", " ", "w", "h", "o", "l", "e", ",", " ", "r", "a", "w", ",", " ", "f", "r", "e", "s", "h">>
dBread == <<"B", "r", "e", "a", "d", ",", " ", "w", "h", "i", "t", "e", ",", " ", "c", "o", "m", "m", "e", "r", "c", "i", "a", "l", "l", "y", " ", "p", "r", "e", "p", "a", "r", "e", "d">>
dMilkWhole == <<"M", "i", "l", "k", ",", " ", "w", "h", "o", "l", "e">>
dXMilkFat == <<"x", " ", "m", "i", "l", "k", " ", "f", "a", "t">>
dMilkXMilkFat == <<"m", "i", "l", "k", " ", "x", " ", "m", "i", "l", "k", " ", "f", "a", "t">>
dPunct == <<"(", ".", ")">>
qMilk == <<"m", "i", "l", "k">>
qMILK == <<"M", "I", "L", "K">>
qEgg == <<"e", "g", "g">>
qXyz == <<"x", "y", "z">>
qEmpty == <<>>
qSpaces == <<" ", " ">>
qPunct == <<",", ".">>
qMilkWhole == <<"m", "i", "l", "k", ",", " ", "w", "h", "o", "l", "e">>
qXMilkFat == <<"x", " ", "m", "i", "l", "k", " ", "f", "a", "t">>
qA == <<"a">>
qWhole == <<"w", "h", "o", "l", "e">>
wEggs == <<"e", "g", "g", "s">>
wHole == <<"h", "o", "l", "e">>
nEnergySpaced == <<" ", "e", "n", "e", "r", "g", "y", " ">>
nEnergyLower == <<"e", "n", "e", "r", "g", "y", " ">>
uKJSpaced == <<"K", "J", " ">>
kw_pufa_182 == <<"p", "u", "f", "a", " ", "1", "8", ":", "2">>
nEnergy == <<"E", "n", "e", "r", "g", "y">>
nProtein == <<"P", "r", "o", "t", "e", "i", "n">>
nVitaminCTotal == <<"V", "i", "t", "a", "m", "i", "n", " ", "C", ",", " ", "t", "o", "t", "a", "l", " ", "a", "s", "c", "o", "r", "b", "i", "c", " ", "a", "c", "i", "d">>
nVitaminC == <<"V", "i", "t", "a", "m", "i", "n", " ", "C">>
nPUFA182 == <<"P", "U", "F", "A", " ", "1", "8", ":", "2">>
n182 == <<"1", "8", ":", "2">>
uKcal == <<"k", "c", "a", "l">>
uKJ == <<"k", "J">>
uG == <<"g">>
uMg == <<"m", "g">>
pCup == <<"c", "u", "p">>
pC == <<"c">>

(***************************************************************************)
(* Relevance scorer                                                        *)
(***************************************************************************)
\* Faulty variant: the string is not lower-cased
normalizeString_keepsCase(s) ==
    RemoveChar(RemoveChar(RemoveChar(RemoveChar(TrimSpace(s), ","), "."), "("), ")")

\* normalizeString: lower-case and trim, then drop , . ( )
normalizeString(s) ==
    RemoveChar(RemoveChar(RemoveChar(RemoveChar(ToLower(TrimSpace(s)), ","), "."), "("), ")")

\* wordScore with the operands of the substring test exchanged
wordScore_swappedContains(descWord, queryWord, i) ==
    IF descWord = queryWord
    THEN 50 + (IF i < 3 THEN (3 - i) * 10 ELSE 0)
    ELSE IF HasPrefix(descWord, queryWord) /\ Len(queryWord) >= 3
    THEN 25 + (IF i < 3 THEN (3 - i) * 5 ELSE 0)
    ELSE IF Contains(queryWord, descWord) /\ Len(queryWord) >= 4
    THEN 10
    ELSE 0

\* The score of one description word at 0-based index i against one query word
wordScore(descWord, queryWord, i) ==
    IF descWord = queryWord
    THEN 50 + (IF i < 3 THEN (3 - i) * 10 ELSE 0)
    ELSE IF HasPrefix(descWord, queryWord) /\ Len(queryWord) >= 3
    THEN 25 + (IF i < 3 THEN (3 - i) * 5 ELSE 0)
    ELSE IF Contains(descWord, queryWord) /\ Len(queryWord) >= 4
    THEN 10
    ELSE 0

\* Faulty variant: the first matching description word decides
bestWordScore_firstMatch(queryWord, descWords) ==
    LET hits == {i \in 1..Len(descWords) : wordScore(descWords[i], queryWord, i - 1) > 0}
    IN  IF hits = {} THEN 0
        ELSE LET i == CHOOSE h \in hits : \A x \in hits : h <= x
             IN  wordScore(descWords[i], queryWord, i - 1)

\* The inner loop: the largest wordScore over the description words (0 if none)
bestWordScore(queryWord, descWords) ==
    LET scores == {wordScore(descWords[i], queryWord, i - 1) : i \in 1..Len(descWords)} \cup {0}
    IN  CHOOSE m \in scores : \A x \in scores : m >= x

RECURSIVE SumSeq(_)
SumSeq(s) == IF s = <<>> THEN 0 ELSE Head(s) + SumSeq(Tail(s))

\* Faulty variant: the "milkfat" reduction is tested before the prefix boost
foodPatternFactor_milkfatFirst(queryWord, normalizedDesc) ==
    IF queryWord = kw_milk
    THEN IF Contains(normalizedDesc, kw_milkfat) \/ Contains(normalizedDesc, kw_milk_fat)
         THEN <<3, 10>>
         ELSE IF HasPrefix(normalizedDesc, kw_milk) THEN <<2, 1>>
         ELSE <<1, 1>>
    ELSE IF queryWord = kw_cheese
    THEN IF HasPrefix(normalizedDesc, kw_cheese) THEN <<3, 2>> ELSE <<1, 1>>
    ELSE IF queryWord \in {kw_chicken, kw_beef, kw_pork}
    THEN IF HasPrefix(normalizedDesc, queryWord) THEN <<13, 10>> ELSE <<1, 1>>
    ELSE IF queryWord = kw_bread
    THEN IF HasPrefix(normalizedDesc, kw_bread) \/ Contains(normalizedDesc, kw_bread)
         THEN <<6, 5>> ELSE <<1, 1>>
    ELSE <<1, 1>>

\* The switch of adjustScoreForFoodContext for one query word
foodPatternFactor(queryWord, normalizedDesc) ==
    IF queryWord = kw_milk
    THEN IF HasPrefix(normalizedDesc, kw_milk) THEN <<2, 1>>
         ELSE IF Contains(normalizedDesc, kw_milkfat) \/ Contains(normalizedDesc, kw_milk_fat)
         THEN <<3, 10>>
         ELSE <<1, 1>>
    ELSE IF queryWord = kw_cheese
    THEN IF HasPrefix(normalizedDesc, kw_cheese) THEN <<3, 2>> ELSE <<1, 1>>
    ELSE IF queryWord \in {kw_chicken, kw_beef, kw_pork}
    THEN IF HasPrefix(normalizedDesc, queryWord) THEN <<13, 10>> ELSE <<1, 1>>
    ELSE IF queryWord = kw_bread
    THEN IF HasPrefix(normalizedDesc, kw_bread) \/ Contains(normalizedDesc, kw_bread)
         THEN <<6, 5>> ELSE <<1, 1>>
    ELSE <<1, 1>>

RECURSIVE applyFoodPatterns(_, _, _)
applyFoodPatterns(queryWords, normalizedDesc, score) ==
    IF queryWords = <<>> THEN score
    ELSE LET f == foodPatternFactor(Head(queryWords), normalizedDesc)
         IN  applyFoodPatterns(Tail(queryWords), normalizedDesc, RatMul(score, f[1], f[2]))

brandIndicators == {kw_brand, kw_store, kw_composite, kw_mixed, kw_frozen, kw_canned}

adjustScoreForFoodContext(description, normalizedQuery, queryWords, currentScore) ==
    LET normalizedDesc == normalizeString(description)
        descWords == Fields(normalizedDesc)
        s1 == IF /\ Len(descWords) <= 3
                 /\ Len(queryWords) = 1
                 /\ Contains(descWords[1], queryWords[1])
              THEN RatMul(currentScore, 3, 2)
              ELSE currentScore
        s2 == applyFoodPatterns(queryWords, normalizedDesc, s1)
    IN  IF /\ Len(queryWords) = 1
           /\ Len(descWords) > 6
           /\ \E ind \in brandIndicators : Contains(normalizedDesc, ind)
        THEN RatMul(s2, 7, 10)
        ELSE s2

\* The outer loop: bestWordScore of every query word, in query order
wordMatches(queryWords, descWords) ==
    [k \in 1..Len(queryWords) |-> bestWordScore(queryWords[k], descWords)]

\* The score, given the best word score of every query word
scoreFromWords(description, normalizedQuery, queryWords, best) ==
    LET normalizedDesc == normalizeString(description)
        descWords == Fields(normalizedDesc)
    IN  IF Len(queryWords) = 0 \/ Len(descWords) = 0 THEN RatZero
        ELSE
        LET exact == IF normalizedDesc = normalizedQuery THEN 1000 ELSE 0
            prefix == IF HasPrefix(normalizedDesc, normalizedQuery) THEN 500 ELSE 0
            substr == IF Contains(normalizedDesc, normalizedQuery) THEN 100 ELSE 0
            matchedWords == Cardinality({k \in 1..Len(queryWords) : best[k] > 0})
            totalQueryWords == Len(queryWords)
            base == <<exact + prefix + substr + SumSeq(best), 1>>
            boosted == IF totalQueryWords > 1
                       THEN RatMul(base, totalQueryWords + matchedWords, totalQueryWords)
                       ELSE base
            penalised == IF Len(descWords) > 10 /\ matchedWords < totalQueryWords
                         THEN RatMul(boosted, 4, 5)
                         ELSE boosted
        IN  adjustScoreForFoodContext(description, normalizedQuery, queryWords, penalised)

relevanceScore(description, normalizedQuery, queryWords) ==
    scoreFromWords(description, normalizedQuery, queryWords,
                   wordMatches(queryWords, Fields(normalizeString(description))))

DescriptionPool ==
    {dMilkWholeMilkfat, dCheeseCottage, dEggs, dBread, dMilkWhole, dXMilkFat, dMilkXMilkFat, dPunct}

QueryPool ==
    {qMilk, qMILK, qEgg, qXyz, qEmpty, qSpaces, qPunct, qMilkWhole, qXMilkFat, qA, qWhole}

\* relevanceScore over the descriptions and queries of the model, computed once
scoreMemo ==
    [p \in DescriptionPool \X {normalizeString(q) : q \in QueryPool} |->
        relevanceScore(p[1], p[2], Fields(p[2]))] @@ <<>>

calculateRelevanceScore(description, normalizedQuery, queryWords) ==
    IF <<description, normalizedQuery>> \in DOMAIN scoreMemo /\ queryWords = Fields(normalizedQuery)
    THEN scoreMemo[<<description, normalizedQuery>>]
    ELSE relevanceScore(description, normalizedQuery, queryWords)

\* The score SearchFoodsByName gives a description for a raw query
Score(description, query) ==
    calculateRelevanceScore(description, normalizeString(query), Fields(normalizeString(query)))

(***************************************************************************)
(* Inputs of the scorer: the strings above, and phrases of a few words     *)
(***************************************************************************)
MaxWords == 2

RECURSIVE joinWords(_, _)
joinWords(words, sep) ==
    IF Len(words) = 0 THEN <<>>
    ELSE IF Len(words) = 1 THEN words[1]
    ELSE words[1] \o sep \o joinWords(Tail(words), sep)

phrases(wordPool, sep) ==
    {joinWords(ws, sep) : ws \in UNION {[1..k -> wordPool] : k \in 0..MaxWords}}

ScoringDescriptions ==
    DescriptionPool \cup phrases({kw_milk, kw_milkfat, wEggs, qWhole}, <<",", " ">>)

ScoringQueries ==
    QueryPool \cup phrases({kw_milk, kw_milkfat, qEgg, wHole, qA}, <<" ">>)

(***************************************************************************)
(* Corpus: FoundationFood records                                          *)
(***************************************************************************)
\* A nil error; a nil pointer result is the empty sequence, a non-nil one a
\* one-element sequence
Nil == "nil"
ErrNotLoaded == "foundation Foods data not loaded"
ErrEmpty == "foundation Foods data is empty"
ErrNotFound == "food not found"

FoodNutrient(name, unitName, amount) ==
    [Nutrient |-> [Name |-> name, UnitName |-> unitName], Amount |-> amount,
     DataPoints |-> 1, Max |-> amount + 1, Min |-> amount, Median |-> amount]

FoodPortion(value, name, abbreviation, gramWeight) ==
    [Value |-> value, MeasureUnit |-> [Name |-> name, Abbreviation |-> abbreviation],
     GramWeight |-> gramWeight, Amount |-> 1]

FoundationFood(description, fdcId, foodNutrients, foodPortions) ==
    [Description |-> description, FdcId |-> fdcId,
     FoodNutrients |-> foodNutrients, FoodPortions |-> foodPortions]

milkNutrients ==
    <<FoodNutrient(nEnergy, uKcal, 61), FoodNutrient(nEnergy, uKJ, 256), FoodNutrient(nProtein, uG, 3)>>
cheeseNutrients ==
    <<FoodNutrient(nVitaminCTotal, uMg, 2), FoodNutrient(nPUFA182, uG, 1)>>
cupPortion == <<FoodPortion(1, pCup, pC, 244)>>

\* The four records of TestEngine_SearchFoodsByName
testFoods ==
    <<FoundationFood(dMilkWholeMilkfat, 1, milkNutrients, cupPortion),
      FoundationFood(dCheeseCottage, 2, cheeseNutrients, <<>>),
      FoundationFood(dEggs, 3, <<>>, <<>>),
      FoundationFood(dBread, 4, <<>>, <<>>)>>

\* Records for the generated corpora: one with a twin of equal description
\* (so of equal score) and another FdcId, one whose description has no words
\* and whose FdcId repeats the first one's
poolFoods ==
    {testFoods[1],
     FoundationFood(dMilkWholeMilkfat, 5, <<>>, cupPortion),
     FoundationFood(dPunct, 1, milkNutrients, <<>>)}

\* An exactly matching description among near matches
exactFoods ==
    <<FoundationFood(dMilkXMilkFat, 6, <<>>, <<>>),
      FoundationFood(dXMilkFat, 7, <<>>, <<>>),
      FoundationFood(dMilkWhole, 8, milkNutrients, <<>>)>>

MaxCorpus == 2
BigCorpusLen == 12

\* More matching records than the largest limit
bigFoods ==
    [i \in 1..BigCorpusLen |->
        FoundationFood(IF i % 3 = 1 THEN dMilkWholeMilkfat
                       ELSE IF i % 3 = 2 THEN dCheeseCottage ELSE dEggs,
                       100 + i, <<>>, <<>>)]

Corpora ==
    UNION {[1..k -> poolFoods] : k \in 0..MaxCorpus} \cup {testFoods, exactFoods, bigFoods}

\* e.data: a nil pointer, or the parsed file
NilData == [isNil |-> TRUE, FoundationFoods |-> <<>>]
LoadedData(foods) == [isNil |-> FALSE, FoundationFoods |-> foods]
DataValues == {NilData} \cup {LoadedData(c) : c \in Corpora}

MaxLimit == 11
LimitPool == (-1)..MaxLimit

FilterPool == {<<>>, <<nEnergy>>, <<nVitaminC, n182>>}

FdcIdPool == {1, 3, 5, 9}

(***************************************************************************)
(* sort.Slice(results, less): sorted by less; the order of elements that   *)
(* less does not separate is not specified ("not guaranteed to be stable") *)
(* and is a property of the build (sortTie).                               *)
(***************************************************************************)
TiePolicies == {"stable", "reverse", "evensFirst"}

tieKey(tie, i, n) ==
    IF tie = "stable" THEN i
    ELSE IF tie = "reverse" THEN n - i
    ELSE IF i % 2 = 0 THEN i ELSE n + i

\* less(i, j) of SearchFoodsByName: results[i].Score > results[j].Score
scoreLess(a, b) == RatGT(a.Score, b.Score)

sortSlice(results, tie) ==
    LET n == Len(results)
        before(j, i) ==
            \/ scoreLess(results[j], results[i])
            \/ /\ ~scoreLess(results[i], results[j])
               /\ tieKey(tie, j, n) < tieKey(tie, i, n)
        rank(i) == 1 + Cardinality({j \in 1..n : before(j, i)})
    IN  [p \in 1..n |-> results[CHOOSE i \in 1..n : rank(i) = p]]

(***************************************************************************)
(* Engine                                                                  *)
(***************************************************************************)
\* Mutant: the ceiling of 10 is missing
clampLimit_noCeiling(limit) ==
    IF limit <= 0 THEN 3 ELSE limit

clampLimit(limit) ==
    IF limit <= 0 THEN 3 ELSE IF limit > 10 THEN 10 ELSE limit

\* Mutant: records of score 0 are kept (score >= 0 for score > 0)
scanFoods_keepsZero(foods, query) ==
    LET normalizedQuery == normalizeString(query)
        queryWords == Fields(normalizedQuery)
    IN  [i \in 1..Len(foods) |->
            [Food |-> foods[i],
             Score |-> calculateRelevanceScore(foods[i].Description,
                                               normalizedQuery, queryWords)]]

\* The scan loop: every record in stored order, kept when its score is > 0
scanFoods(foods, query) ==
    LET normalizedQuery == normalizeString(query)
        queryWords == Fields(normalizedQuery)
        scored == [i \in 1..Len(foods) |->
                     [Food |-> foods[i],
                      Score |-> calculateRelevanceScore(foods[i].Description,
                                                        normalizedQuery, queryWords)]]
    IN  SelectSeq(scored, LAMBDA r : RatGT(r.Score, RatZero))

\* Mutant: the loop breaks on i > limit, one entry late
topFoods_offByOne(results, limit) ==
    [i \in 1..(IF Len(results) < limit + 1 THEN Len(results) ELSE limit + 1) |-> results[i].Food]

\* The extraction loop: the first limit entries of the sorted results
topFoods(results, limit) ==
    [i \in 1..(IF Len(results) < limit THEN Len(results) ELSE limit) |-> results[i].Food]

SearchFoodsByName(d, tie, query, limit) ==
    IF d.isNil THEN [foods |-> <<>>, err |-> ErrNotLoaded]
    ELSE [foods |-> topFoods(sortSlice(scanFoods(d.FoundationFoods, query), tie),
                             clampLimit(limit)),
          err |-> Nil]

\* Faulty variant: the loop does not return at the first hit, the last one wins
GetFoodByFdcId_lastHit(d, fdcId) ==
    IF d.isNil THEN [food |-> <<>>, err |-> ErrNotLoaded]
    ELSE LET hits == {i \in 1..Len(d.FoundationFoods) : d.FoundationFoods[i].FdcId = fdcId}
         IN  IF hits = {} THEN [food |-> <<>>, err |-> ErrNotFound]
             ELSE [food |-> <<d.FoundationFoods[CHOOSE i \in hits : \A j \in hits : i >= j]>>,
                   err |-> Nil]

GetFoodByFdcId(d, fdcId) ==
    IF d.isNil THEN [food |-> <<>>, err |-> ErrNotLoaded]
    ELSE LET hits == {i \in 1..Len(d.FoundationFoods) : d.FoundationFoods[i].FdcId = fdcId}
         IN  IF hits = {} THEN [food |-> <<>>, err |-> ErrNotFound]
             ELSE [food |-> <<d.FoundationFoods[CHOOSE i \in hits : \A j \in hits : i <= j]>>,
                   err |-> Nil]

\* Faulty variant: only the nil check, an empty corpus is healthy
Health_nilCheckOnly(d) == IF d.isNil THEN ErrNotLoaded ELSE Nil

Health(d) ==
    IF d.isNil THEN ErrNotLoaded
    ELSE IF Len(d.FoundationFoods) = 0 THEN ErrEmpty
    ELSE Nil

\* Faulty variant: the PUFA prefix is only looked for on the filter side
isAlternativeNutrientName_filterSideOnly(dataName, filterName) ==
    \/ HasPrefix(filterName, kw_pufa) /\ dataName = TrimPrefix(filterName, kw_pufa)
    \/ filterName = kw_vitamin_c_total /\ dataName = kw_vitamin_c
    \/ filterName = kw_vitamin_c /\ dataName = kw_vitamin_c_total

isAlternativeNutrientName(dataName, filterName) ==
    \/ HasPrefix(filterName, kw_pufa) /\ dataName = TrimPrefix(filterName, kw_pufa)
    \/ HasPrefix(dataName, kw_pufa) /\ filterName = TrimPrefix(dataName, kw_pufa)
    \/ filterName = kw_vitamin_c_total /\ dataName = kw_vitamin_c
    \/ filterName = kw_vitamin_c /\ dataName = kw_vitamin_c_total

\* Faulty variant: a filter entry matches every name it is a substring of
shouldIncludeNutrient_substring(nutrientName, nutrientsToInclude) ==
    \/ Len(nutrientsToInclude) = 0
    \/ LET normalizedNutrientName == ToLower(TrimSpace(nutrientName))
       IN  \E k \in 1..Len(nutrientsToInclude) :
              LET normalizedIncludeName == ToLower(TrimSpace(nutrientsToInclude[k]))
              IN  \/ Contains(normalizedNutrientName, normalizedIncludeName)
                  \/ isAlternativeNutrientName(normalizedNutrientName, normalizedIncludeName)

\* Faulty variant: the filter entries are compared as given, not trimmed and lower-cased
shouldIncludeNutrient_rawEntries(nutrientName, nutrientsToInclude) ==
    \/ Len(nutrientsToInclude) = 0
    \/ LET normalizedNutrientName == ToLower(TrimSpace(nutrientName))
       IN  \E k \in 1..Len(nutrientsToInclude) :
              \/ normalizedNutrientName = nutrientsToInclude[k]
              \/ isAlternativeNutrientName(normalizedNutrientName, nutrientsToInclude[k])

shouldIncludeNutrient(nutrientName, nutrientsToInclude) ==
    \/ Len(nutrientsToInclude) = 0
    \/ LET normalizedNutrientName == ToLower(TrimSpace(nutrientName))
       IN  \E k \in 1..Len(nutrientsToInclude) :
              LET normalizedIncludeName == ToLower(TrimSpace(nutrientsToInclude[k]))
              IN  \/ normalizedNutrientName = normalizedIncludeName
                  \/ isAlternativeNutrientName(normalizedNutrientName, normalizedIncludeName)

\* Faulty variant: name and unit are compared without trimming
isEnergyKJ_untrimmed(nutrient) ==
    /\ ToLower(nutrient.Nutrient.Name) = kw_energy
    /\ ToLower(nutrient.Nutrient.UnitName) = kw_kj

isEnergyKJ(nutrient) ==
    /\ ToLower(TrimSpace(nutrient.Nutrient.Name)) = kw_energy
    /\ ToLower(TrimSpace(nutrient.Nutrient.UnitName)) = kw_kj

\* Faulty variant: Max and Min are exchanged
simplifyNutrient_swapsMinMax(nutrient) ==
    [Name |-> nutrient.Nutrient.Name, UnitName |-> nutrient.Nutrient.UnitName,
     Amount |-> nutrient.Amount, DataPoints |-> nutrient.DataPoints,
     Max |-> nutrient.Min, Min |-> nutrient.Max, Median |-> nutrient.Median]

simplifyNutrient(nutrient) ==
    [Name |-> nutrient.Nutrient.Name, UnitName |-> nutrient.Nutrient.UnitName,
     Amount |-> nutrient.Amount, DataPoints |-> nutrient.DataPoints,
     Max |-> nutrient.Max, Min |-> nutrient.Min, Median |-> nutrient.Median]

simplifyPortion(portion) ==
    [Value |-> portion.Value,
     MeasureUnit |-> [Name |-> portion.MeasureUnit.Name,
                      Abbreviation |-> portion.MeasureUnit.Abbreviation],
     GramWeight |-> portion.GramWeight, Amount |-> portion.Amount]

simplifyFood(food, nutrientsToInclude) ==
    LET kept == SelectSeq(food.FoodNutrients,
                          LAMBDA nutrient :
                              /\ ~isEnergyKJ(nutrient)
                              /\ shouldIncludeNutrient(nutrient.Nutrient.Name, nutrientsToInclude))
    IN  [Name |-> food.Description,
         Nutrients |-> [i \in 1..Len(kept) |-> simplifyNutrient(kept[i])],
         NutrientsIsNil |-> FALSE,   \* make([]SimplifiedNutrient, 0, ...): empty, not nil
         FoodPortions |-> [i \in 1..Len(food.FoodPortions) |-> simplifyPortion(food.FoodPortions[i])]]

\* Faulty variant: a food left without nutrients is not appended
simplifyFound_dropsEmpty(found, nutrientsToInclude) ==
    IF found.err # Nil THEN [resp |-> <<>>, err |-> found.err]
    ELSE LET all == [i \in 1..Len(found.foods) |-> simplifyFood(found.foods[i], nutrientsToInclude)]
             simplifiedFoods == SelectSeq(all, LAMBDA f : Len(f.Nutrients) > 0)
         IN  [resp |-> <<[Found |-> Len(simplifiedFoods) > 0,
                         Count |-> Len(simplifiedFoods),
                         Foods |-> simplifiedFoods]>>,
              err |-> Nil]

\* Faulty variant: Found says that the search succeeded
simplifyFound_foundOnSuccess(found, nutrientsToInclude) ==
    IF found.err # Nil THEN [resp |-> <<>>, err |-> found.err]
    ELSE LET simplifiedFoods ==
                 [i \in 1..Len(found.foods) |-> simplifyFood(found.foods[i], nutrientsToInclude)]
         IN  [resp |-> <<[Found |-> TRUE,
                         Count |-> Len(simplifiedFoods),
                         Foods |-> simplifiedFoods]>>,
              err |-> Nil]

\* Faulty variant: each simplified food is put in front of the earlier ones
simplifyFound_prepends(found, nutrientsToInclude) ==
    IF found.err # Nil THEN [resp |-> <<>>, err |-> found.err]
    ELSE LET n == Len(found.foods)
             simplifiedFoods ==
                 [i \in 1..n |-> simplifyFood(found.foods[n + 1 - i], nutrientsToInclude)]
         IN  [resp |-> <<[Found |-> Len(simplifiedFoods) > 0,
                         Count |-> Len(simplifiedFoods),
                         Foods |-> simplifiedFoods]>>,
              err |-> Nil]

\* What SearchFoodsByNameSimplified makes of the answer of SearchFoodsByName
simplifyFound(found, nutrientsToInclude) ==
    IF found.err # Nil THEN [resp |-> <<>>, err |-> found.err]
    ELSE LET simplifiedFoods ==
                 [i \in 1..Len(found.foods) |-> simplifyFood(found.foods[i], nutrientsToInclude)]
         IN  [resp |-> <<[Found |-> Len(simplifiedFoods) > 0,
                         Count |-> Len(simplifiedFoods),
                         Foods |-> simplifiedFoods]>>,
              err |-> Nil]

SearchFoodsByNameSimplified(d, tie, query, limit, nutrientsToInclude) ==
    simplifyFound(SearchFoodsByName(d, tie, query, limit), nutrientsToInclude)

(***************************************************************************)
(* MCP tool handlers                                                       *)
(***************************************************************************)
\* The "limit" argument of a tool call: absent, not a number, or a number
\* (in tenths, so that fractions are truncated as int(limitFloat) does)
MissingArg == [kind |-> "missing", tenths |-> 0]
NonNumericArg == [kind |-> "nonNumeric", tenths |-> 0]
NumberArg(t) == [kind |-> "number", tenths |-> t]
LimitArgPool ==
    {MissingArg, NonNumericArg} \cup
    {NumberArg(t) : t \in {-15, 0, 5, 25, 109, 110}}

\* The "name" argument: absent, or a string
NoName == [present |-> FALSE, value |-> <<>>]
NameArg(s) == [present |-> TRUE, value |-> s]
NameArgPool == {NoName} \cup {NameArg(q) : q \in {qEmpty, qMilk, qA, qWhole}}

\* request.GetFloat("limit", 3.0)
GetFloat(arg, defaultTenths) ==
    IF arg.kind = "number" THEN arg.tenths ELSE defaultTenths

\* int(limitFloat): truncation toward zero
truncate(tenths) ==
    IF tenths >= 0 THEN tenths \div 10 ELSE -((-tenths) \div 10)

\* limit := int(request.GetFloat("limit", 3.0)), then the handler's clamp
handlerLimit(arg) ==
    LET limit == truncate(GetFloat(arg, 30))
    IN  IF limit <= 0 THEN 3 ELSE IF limit > 10 THEN 10 ELSE limit

ToolError(message) == [isError |-> TRUE, message |-> message, response |-> <<>>]
ToolResult(response) == [isError |-> FALSE, message |-> "", response |-> <<response>>]

handleFoodSearch(d, tie, name, limitArg) ==
    IF ~name.present THEN ToolError("Missing required parameter 'name'")
    ELSE IF Len(name.value) < 1 THEN ToolError("Parameter 'name' must be at least 1 character long")
    ELSE LET found == SearchFoodsByName(d, tie, name.value, handlerLimit(limitArg))
         IN  IF found.err # Nil THEN ToolError("Search failed")
             ELSE ToolResult([Found |-> Len(found.foods) > 0,
                              Count |-> Len(found.foods),
                              Products |-> found.foods])

\* The handler passes no nutrient list
handleSimplifiedFoodSearch(d, tie, name, limitArg) ==
    IF ~name.present THEN ToolError("Missing required parameter 'name'")
    ELSE IF Len(name.value) < 1 THEN ToolError("Parameter 'name' must be at least 1 character long")
    ELSE LET r == SearchFoodsByNameSimplified(d, tie, name.value, handlerLimit(limitArg), <<>>)
         IN  IF r.err # Nil THEN ToolError("Search failed")
             ELSE ToolResult(r.resp[1])

(***************************************************************************)
(* What an operation leaves in e.data                                      *)
(***************************************************************************)
\* Mutant: the corpus itself is sorted by score, in place
dataAfterSearch_sortsCorpus(d, tie, query) ==
    IF d.isNil THEN d
    ELSE LET sorted == sortSlice(scanFoods_keepsZero(d.FoundationFoods, query), tie)
         IN  [d EXCEPT !.FoundationFoods = [i \in 1..Len(sorted) |-> sorted[i].Food]]

\* SearchFoodsByName appends copies of the records to its own results slice
\* and sorts that slice: the corpus is only read
dataAfterSearch(d, tie, query) == d

\* Mutant: the pointer returned is &e.data.FoundationFoods[i]
dataAfterWriteThrough_aliased(d, fdcId, description) ==
    IF d.isNil THEN d
    ELSE LET hits == {i \in 1..Len(d.FoundationFoods) : d.FoundationFoods[i].FdcId = fdcId}
         IN  IF hits = {} THEN d
             ELSE [d EXCEPT !.FoundationFoods[CHOOSE i \in hits : \A j \in hits : i <= j].Description
                                = description]

\* GetFoodByFdcId returns &food, the address of the loop variable holding a
\* copy of the record: a write through the pointer does not reach the corpus
dataAfterWriteThrough(d, fdcId, description) == d

(***************************************************************************)
(* One engine, one caller at a time                                        *)
(***************************************************************************)
VARIABLES
    data,      \* e.data
    loaded,    \* e.data as NewEngine (or the test's struct literal) set it
    sortTie,   \* how this build's sort.Slice orders equal scores
    pc,        \* "idle", or "returned" while the caller holds a result
    call,      \* the call that returned last: operation, arguments, result
    probe,     \* the search a client repeats: its query and limit
    first,     \* what the first call of the repeated search returned
    scoring,   \* one application of the scorer: description, query, score
    threads,   \* concurrent callers: each one's position and locals
    host,      \* the process: its mode, its data file, where main is, how it ended
    projection, \* one application of the nutrient projection or of the alias test
    normal,    \* one application of normalizeString, and one more to its result
    environ,   \* the process environment, the .env file and the loaded Config
    http,      \* the HTTP server: its token, the request in hand, the response
    recorder   \* a responseRecorder, the calls made on it and those it passed on

engineVars == <<data, loaded, sortTie>>
callVars == <<pc, call>>
repeatVars == <<probe, first>>
vars == <<data, loaded, sortTie, pc, call, probe, first, scoring, threads, host, projection,
          normal, environ, http, recorder>>

NoCall == [op |-> "none", args |-> <<>>, ret |-> <<>>]

NoProbe == [query |-> <<>>, limit |-> 0, set |-> FALSE]
NoFirst == [calls |-> 0, ret |-> <<>>]
NoScoring == [description |-> <<>>, query |-> <<>>, score |-> RatZero, done |-> FALSE]
NoThreads == <<>>
NoFile == [kind |-> "none", foods |-> <<>>]
NoProjection == [kind |-> "none", food |-> <<>>, filter |-> <<>>, out |-> <<>>,
                 dataName |-> <<>>, filterName |-> <<>>, alias |-> <<>>, done |-> FALSE]
\* No string is being normalised
NoNormal == [input |-> <<>>, output |-> <<>>, again |-> <<>>, done |-> FALSE]
\* No environment in play: no variable set, no .env file, nothing loaded
NoEnviron == [before |-> <<>>, env |-> <<>>, file |-> [missing |-> TRUE, lines |-> <<>>],
              config |-> [AuthToken |-> <<>>, Port |-> <<>>], loaded |-> FALSE]
\* No HTTP server yet, no request served
NoRequest == [path |-> "", method |-> "", hasAuthorization |-> FALSE, authorization |-> <<>>]
NoHTTP == [pos |-> "none", token |-> <<>>, req |-> NoRequest, status |-> 0, body |-> <<>>,
           forwarded |-> FALSE, ran |-> FALSE, served |-> 0]
\* &responseRecorder{ResponseWriter: w}: the zero values, nothing passed on
\* to w and (calls) nothing called yet
NoRecorder == [statusCode |-> 0, bytesWritten |-> 0, headerWritten |-> FALSE,
               wrapped |-> <<>>, calls |-> <<>>]

NoHost == [mode |-> "none", file |-> NoFile, pos |-> "none", engineNil |-> TRUE, err |-> Nil,
           server |-> FALSE, handled |-> 0, status |-> -1]

\* The engine as constructed: NewEngine leaves data non-nil (a file without
\* records gives an empty corpus); a struct literal may leave it nil
InitEngine ==
    /\ data \in DataValues
    /\ loaded = data
    /\ sortTie \in TiePolicies
    /\ pc = "idle"
    /\ call = NoCall

Init ==
    /\ InitEngine
    /\ probe = NoProbe
    /\ first = NoFirst
    /\ scoring = NoScoring
    /\ threads = NoThreads
    /\ host = NoHost
    /\ projection = NoProjection
    /\ normal = NoNormal
    /\ environ = NoEnviron
    /\ http = NoHTTP
    /\ recorder = NoRecorder

CallSearchFoodsByName(query, limit) ==
    /\ pc = "idle"
    /\ call' = [op |-> "SearchFoodsByName",
                args |-> [query |-> query, limit |-> limit],
                ret |-> SearchFoodsByName(data, sortTie, query, limit)]
    /\ data' = dataAfterSearch(data, sortTie, query)
    /\ pc' = "returned"
    /\ UNCHANGED <<loaded, sortTie, probe, first, scoring, threads, host, projection, normal, environ, http, recorder>>

CallSearchFoodsByNameSimplified(query, limit, nutrientsToInclude) ==
    /\ pc = "idle"
    /\ call' = [op |-> "SearchFoodsByNameSimplified",
                args |-> [query |-> query, limit |-> limit, filter |-> nutrientsToInclude],
                ret |-> SearchFoodsByNameSimplified(data, sortTie, query, limit, nutrientsToInclude)]
    /\ data' = dataAfterSearch(data, sortTie, query)
    /\ pc' = "returned"
    /\ UNCHANGED <<loaded, sortTie, probe, first, scoring, threads, host, projection, normal, environ, http, recorder>>

CallGetFoodByFdcId(fdcId) ==
    /\ pc = "idle"
    /\ call' = [op |-> "GetFoodByFdcId",
                args |-> [fdcId |-> fdcId],
                ret |-> GetFoodByFdcId(data, fdcId)]
    /\ pc' = "returned"
    /\ UNCHANGED <<data, loaded, sortTie, probe, first, scoring, threads, host, projection, normal, environ, http, recorder>>

CallHealth ==
    /\ pc = "idle"
    /\ call' = [op |-> "Health", args |-> <<>>, ret |-> [err |-> Health(data)]]
    /\ pc' = "returned"
    /\ UNCHANGED <<data, loaded, sortTie, probe, first, scoring, threads, host, projection, normal, environ, http, recorder>>

CallHandleFoodSearch(name, limitArg) ==
    /\ pc = "idle"
    /\ call' = [op |-> "handleFoodSearch",
                args |-> [name |-> name, limit |-> limitArg],
                ret |-> handleFoodSearch(data, sortTie, name, limitArg)]
    /\ data' = IF name.present /\ Len(name.value) >= 1
               THEN dataAfterSearch(data, sortTie, name.value) ELSE data
    /\ pc' = "returned"
    /\ UNCHANGED <<loaded, sortTie, probe, first, scoring, threads, host, projection, normal, environ, http, recorder>>

CallHandleSimplifiedFoodSearch(name, limitArg) ==
    /\ pc = "idle"
    /\ call' = [op |-> "handleSimplifiedFoodSearch",
                args |-> [name |-> name, limit |-> limitArg],
                ret |-> handleSimplifiedFoodSearch(data, sortTie, name, limitArg)]
    /\ data' = IF name.present /\ Len(name.value) >= 1
               THEN dataAfterSearch(data, sortTie, name.value) ELSE data
    /\ pc' = "returned"
    /\ UNCHANGED <<loaded, sortTie, probe, first, scoring, threads, host, projection, normal, environ, http, recorder>>

\* The caller of GetFoodByFdcId owns the record it got and overwrites a field
CallerWritesFood ==
    /\ pc = "returned"
    /\ call.op = "GetFoodByFdcId"
    /\ call.ret.food # <<>>
    /\ call' = [call EXCEPT !.ret.food[1].Description = qXyz]
    /\ data' = dataAfterWriteThrough(data, call.args.fdcId, qXyz)
    /\ UNCHANGED <<loaded, sortTie, pc, probe, first, scoring, threads, host, projection, normal, environ, http, recorder>>

\* The caller drops the result; the engine is ready for the next call
Return ==
    /\ pc = "returned"
    /\ pc' = "idle"
    /\ call' = NoCall
    /\ UNCHANGED <<data, loaded, sortTie, probe, first, scoring, threads, host, projection, normal, environ, http, recorder>>

Next ==
    \/ \E query \in QueryPool, limit \in LimitPool : CallSearchFoodsByName(query, limit)
    \/ \E query \in QueryPool, limit \in {0, 2, MaxLimit}, filter \in FilterPool :
          CallSearchFoodsByNameSimplified(query, limit, filter)
    \/ \E fdcId \in FdcIdPool : CallGetFoodByFdcId(fdcId)
    \/ CallHealth
    \/ \E name \in NameArgPool, limitArg \in LimitArgPool : CallHandleFoodSearch(name, limitArg)
    \/ \E name \in NameArgPool, limitArg \in LimitArgPool : CallHandleSimplifiedFoodSearch(name, limitArg)
    \/ CallerWritesFood
    \/ Return

Spec == Init /\ [][Next]_vars

(***************************************************************************)
(* A client that repeats one search, with other calls in between           *)
(***************************************************************************)
MaxCalls == 2

ProbePool ==
    {[query |-> q, limit |-> l, set |-> TRUE] : q \in {qA, qWhole, qMilk, qXyz}, l \in {0, 1, MaxLimit}}

InitRepeat ==
    /\ InitEngine
    /\ probe \in ProbePool
    /\ first = NoFirst
    /\ scoring = NoScoring
    /\ threads = NoThreads
    /\ host = NoHost
    /\ projection = NoProjection
    /\ normal = NoNormal
    /\ environ = NoEnviron
    /\ http = NoHTTP
    /\ recorder = NoRecorder

\* SearchFoodsByName(probe.query, probe.limit); the client keeps the first answer
RepeatSearch ==
    /\ pc = "idle"
    /\ call' = [op |-> "SearchFoodsByName",
                args |-> [query |-> probe.query, limit |-> probe.limit],
                ret |-> SearchFoodsByName(data, sortTie, probe.query, probe.limit)]
    /\ data' = dataAfterSearch(data, sortTie, probe.query)
    /\ first' = IF first.calls = 0
                THEN [calls |-> 1, ret |-> call'.ret]
                ELSE [first EXCEPT !.calls = IF @ < MaxCalls THEN @ + 1 ELSE @]
    /\ pc' = "returned"
    /\ UNCHANGED <<loaded, sortTie, probe, scoring, threads, host, projection, normal, environ, http, recorder>>

NextRepeat ==
    \/ RepeatSearch
    \/ \E query \in {qWhole, qMilk} : CallSearchFoodsByName(query, 3)
    \/ CallSearchFoodsByNameSimplified(qWhole, 3, <<nEnergy>>)
    \/ \E fdcId \in FdcIdPool : CallGetFoodByFdcId(fdcId)
    \/ CallHealth
    \/ CallerWritesFood
    \/ Return

SpecRepeat == InitRepeat /\ [][NextRepeat]_vars

(***************************************************************************)
(* One application of the scorer to a description and a raw query          *)
(***************************************************************************)
InitScore ==
    /\ data = NilData
    /\ loaded = data
    /\ sortTie = "stable"
    /\ pc = "idle"
    /\ call = NoCall
    /\ probe = NoProbe
    /\ first = NoFirst
    /\ threads = NoThreads
    /\ scoring \in {[description |-> d, query |-> q, score |-> RatZero, done |-> FALSE] :
                        d \in ScoringDescriptions, q \in ScoringQueries}
    /\ host = NoHost
    /\ projection = NoProjection
    /\ normal = NoNormal
    /\ environ = NoEnviron
    /\ http = NoHTTP
    /\ recorder = NoRecorder

\* score := calculateRelevanceScore(description, normalizedQuery, queryWords)
Calculate ==
    /\ ~scoring.done
    /\ scoring' = [scoring EXCEPT !.score = Score(scoring.description, scoring.query),
                                  !.done = TRUE]
    /\ UNCHANGED <<data, loaded, sortTie, pc, call, probe, first, threads, host, projection, normal, environ, http, recorder>>

NextScore == Calculate

SpecScore == InitScore /\ [][NextScore]_vars

(***************************************************************************)
(* Concurrent callers of one engine. A search is a sequence of steps, one  *)
(* per record of the scan loop, then the sort and the extraction on the    *)
(* caller's own results slice; steps of different callers interleave.      *)
(***************************************************************************)
NumThreads == 2

Threads == 1..NumThreads

\* ctxDone: the context the caller passes has been cancelled; visited: the
\* FdcIds of the records the scan loop has read so far
IdleThread == [pc |-> "idle", op |-> "none", query |-> <<>>, limit |-> 0, fdcId |-> 0,
               i |-> 0, results |-> <<>>, ret |-> <<>>, ctxDone |-> FALSE, visited |-> <<>>]

ConcFilter == <<nEnergy>>

InitConc ==
    /\ data \in {NilData, LoadedData(testFoods)}
    /\ loaded = data
    /\ sortTie \in TiePolicies
    /\ pc = "idle"
    /\ call = NoCall
    /\ probe = NoProbe
    /\ first = NoFirst
    /\ scoring = NoScoring
    /\ threads = [t \in Threads |-> IdleThread]
    /\ host = NoHost
    /\ projection = NoProjection
    /\ normal = NoNormal
    /\ environ = NoEnviron
    /\ http = NoHTTP
    /\ recorder = NoRecorder

\* the answer of a search once its scan has collected results
searchAnswer(op, results, tie, limit) ==
    LET found == [foods |-> topFoods(sortSlice(results, tie), clampLimit(limit)), err |-> Nil]
    IN  IF op = "SearchFoodsByName" THEN found ELSE simplifyFound(found, ConcFilter)

\* entry of SearchFoodsByName or SearchFoodsByNameSimplified: the nil check
BeginSearch(t, op, query, limit) ==
    /\ threads[t].pc = "idle"
    /\ threads' = [threads EXCEPT ![t] =
          IF data.isNil
          THEN [IdleThread EXCEPT !.pc = "done", !.op = op, !.query = query, !.limit = limit,
                    !.ctxDone = threads[t].ctxDone,
                    !.ret = IF op = "SearchFoodsByName"
                            THEN [foods |-> <<>>, err |-> ErrNotLoaded]
                            ELSE [resp |-> <<>>, err |-> ErrNotLoaded]]
          ELSE [IdleThread EXCEPT !.pc = "scan", !.op = op, !.query = query, !.limit = limit,
                    !.ctxDone = threads[t].ctxDone,
                    !.i = 1]]
    /\ UNCHANGED <<data, loaded, sortTie, pc, call, probe, first, scoring, host, projection, normal, environ, http, recorder>>

\* What each step of a call needs before it can run: the caller's own
\* position and the length of the corpus, never another caller's state
canScan(t) == threads[t].pc = "scan" /\ threads[t].i <= Len(data.FoundationFoods)
\* Faulty variant: a cancelled context ends the loop
canFinish_whenCancelled(t) ==
    threads[t].pc = "scan" /\ (threads[t].i > Len(data.FoundationFoods) \/ threads[t].ctxDone)

canFinish(t) == threads[t].pc = "scan" /\ threads[t].i > Len(data.FoundationFoods)
canReturn(t) == threads[t].pc = "done"

\* one iteration of the scan loop: read the record at i, score it, keep it if positive
ScanStep(t) ==
    /\ canScan(t)
    /\ LET food == data.FoundationFoods[threads[t].i]
           score == Score(food.Description, threads[t].query)
       IN  threads' = [threads EXCEPT ![t].i = @ + 1,
                                      ![t].visited = Append(@, food.FdcId),
                                      ![t].results = IF RatGT(score, RatZero)
                                                     THEN Append(@, [Food |-> food, Score |-> score])
                                                     ELSE @]
    /\ UNCHANGED <<data, loaded, sortTie, pc, call, probe, first, scoring, host, projection, normal, environ, http, recorder>>

\* after the loop: sort the results, take the first limit, return
FinishSearch(t) ==
    /\ canFinish(t)
    /\ threads' = [threads EXCEPT ![t].pc = "done", ![t].i = 0, ![t].results = <<>>,
                                  ![t].ret = searchAnswer(threads[t].op, threads[t].results,
                                                          sortTie, threads[t].limit)]
    /\ data' = dataAfterSearch(data, sortTie, threads[t].query)
    /\ UNCHANGED <<loaded, sortTie, pc, call, probe, first, scoring, host, projection, normal, environ, http, recorder>>

ThreadGetFoodByFdcId(t, fdcId) ==
    /\ threads[t].pc = "idle"
    /\ threads' = [threads EXCEPT ![t] =
          [IdleThread EXCEPT !.pc = "done", !.op = "GetFoodByFdcId", !.fdcId = fdcId,
                             !.ret = GetFoodByFdcId(data, fdcId)]]
    /\ UNCHANGED <<data, loaded, sortTie, pc, call, probe, first, scoring, host, projection, normal, environ, http, recorder>>

ThreadHealth(t) ==
    /\ threads[t].pc = "idle"
    /\ threads' = [threads EXCEPT ![t] =
          [IdleThread EXCEPT !.pc = "done", !.op = "Health", !.ret = [err |-> Health(data)]]]
    /\ UNCHANGED <<data, loaded, sortTie, pc, call, probe, first, scoring, host, projection, normal, environ, http, recorder>>

\* the caller has its answer and is free to call again
ThreadReturn(t) ==
    /\ canReturn(t)
    /\ threads' = [threads EXCEPT ![t] = IdleThread]
    /\ UNCHANGED <<data, loaded, sortTie, pc, call, probe, first, scoring, host, projection, normal, environ, http, recorder>>

NextConc ==
    \/ \E t \in Threads, op \in {"SearchFoodsByName", "SearchFoodsByNameSimplified"},
          query \in {qWhole, qXyz} : BeginSearch(t, op, query, 2)
    \/ \E t \in Threads : ScanStep(t)
    \/ \E t \in Threads : FinishSearch(t)
    \/ \E t \in Threads, fdcId \in {3, 9} : ThreadGetFoodByFdcId(t, fdcId)
    \/ \E t \in Threads : ThreadHealth(t)
    \/ \E t \in Threads : ThreadReturn(t)

SpecConc == InitConc /\ [][NextConc]_vars

(***************************************************************************)
(* Searches whose caller may cancel the context it passed, before the call *)
(* or while it runs                                                        *)
(***************************************************************************)
InitScan ==
    /\ data \in {NilData, LoadedData(<<>>), LoadedData(testFoods)}
    /\ loaded = data
    /\ sortTie \in TiePolicies
    /\ pc = "idle"
    /\ call = NoCall
    /\ probe = NoProbe
    /\ first = NoFirst
    /\ scoring = NoScoring
    /\ threads = [t \in Threads |-> IdleThread]
    /\ host = NoHost
    /\ projection = NoProjection
    /\ normal = NoNormal
    /\ environ = NoEnviron
    /\ http = NoHTTP
    /\ recorder = NoRecorder

\* the caller cancels the context of the call it is about to make or is making
CancelContext(t) ==
    /\ threads[t].pc \in {"idle", "scan"}
    /\ ~threads[t].ctxDone
    /\ threads' = [threads EXCEPT ![t].ctxDone = TRUE]
    /\ UNCHANGED <<data, loaded, sortTie, pc, call, probe, first, scoring, host, projection, normal, environ, http, recorder>>

NextScan ==
    \/ \E t \in Threads, query \in {qWhole, qXyz} :
          BeginSearch(t, "SearchFoodsByName", query, 2)
    \/ \E t \in Threads : ScanStep(t)
    \/ \E t \in Threads : FinishSearch(t)
    \/ \E t \in Threads : ThreadReturn(t)
    \/ \E t \in Threads : CancelContext(t)

SpecScan == InitScan /\ [][NextScan]_vars

(***************************************************************************)
(* The process: main runs the root command, which loads the data file,     *)
(* creates the server and serves until the transport stops                 *)
(***************************************************************************)
MaxRequests == 2

ErrRead == "failed to read Foundation Foods data file"
ErrParse == "failed to parse Foundation Foods JSON data"
ErrServe == "transport error"

\* The data file: missing or unreadable, not JSON of the expected shape, or
\* a document of some records
FilePool ==
    {[kind |-> "unreadable", foods |-> <<>>], [kind |-> "malformed", foods |-> <<>>]}
    \cup {[kind |-> "ok", foods |-> c] : c \in {<<>>, testFoods, exactFoods}}

\* Faulty variant: a parse error is logged and an engine without records is returned
NewEngine_keepsGoing(file) ==
    IF file.kind = "unreadable"
    THEN [engineNil |-> TRUE, data |-> NilData, err |-> ErrRead]
    ELSE [engineNil |-> FALSE, data |-> LoadedData(file.foods), err |-> Nil]

NewEngine(file) ==
    IF file.kind = "unreadable"
    THEN [engineNil |-> TRUE, data |-> NilData, err |-> ErrRead]
    ELSE IF file.kind = "malformed"
    THEN [engineNil |-> TRUE, data |-> NilData, err |-> ErrParse]
    ELSE [engineNil |-> FALSE, data |-> LoadedData(file.foods), err |-> Nil]

InitStart ==
    /\ data = NilData
    /\ loaded = NilData
    /\ sortTie \in TiePolicies
    /\ pc = "idle"
    /\ call = NoCall
    /\ probe = NoProbe
    /\ first = NoFirst
    /\ scoring = NoScoring
    /\ threads = NoThreads
    /\ host \in {[NoHost EXCEPT !.mode = m, !.file = f, !.pos = "start"] :
                    m \in {"stdio", "http"}, f \in FilePool}
    /\ projection = NoProjection
    /\ normal = NoNormal
    /\ environ = NoEnviron
    /\ http = NoHTTP
    /\ recorder = NoRecorder

\* runStdioMode / runHTTPMode up to the error check after query.NewEngine
HostNewEngine ==
    /\ host.pos = "start"
    /\ LET r == NewEngine(host.file)
       IN  /\ data' = r.data
           /\ loaded' = r.data
           /\ host' = [host EXCEPT !.engineNil = r.engineNil, !.err = r.err,
                                   !.pos = IF r.err # Nil THEN "returned" ELSE "engineReady"]
    /\ UNCHANGED <<sortTie, pc, call, probe, first, scoring, threads, projection, normal, environ, http, recorder>>

\* mcpgo.NewServer(queryEngine, authenticator, logger)
HostNewServer ==
    /\ host.pos = "engineReady"
    /\ host' = [host EXCEPT !.server = TRUE, !.pos = "serverCreated"]
    /\ UNCHANGED <<data, loaded, sortTie, pc, call, probe, first, scoring, threads, projection, normal, environ, http, recorder>>

\* mcpSrv.ServeStdio() / mcpSrv.ServeHTTP(addr) starts to accept requests
HostServe ==
    /\ host.pos = "serverCreated"
    /\ host' = [host EXCEPT !.pos = "serving"]
    /\ UNCHANGED <<data, loaded, sortTie, pc, call, probe, first, scoring, threads, projection, normal, environ, http, recorder>>

\* a tools/call request of the search tool is handled
HostHandle(name, limitArg) ==
    /\ host.pos = "serving"
    /\ host.handled < MaxRequests
    /\ call' = [op |-> "handleFoodSearch",
                args |-> [name |-> name, limit |-> limitArg],
                ret |-> handleFoodSearch(data, sortTie, name, limitArg)]
    /\ data' = IF name.present /\ Len(name.value) >= 1
               THEN dataAfterSearch(data, sortTie, name.value) ELSE data
    /\ host' = [host EXCEPT !.handled = @ + 1]
    /\ UNCHANGED <<loaded, sortTie, pc, probe, first, scoring, threads, projection, normal, environ, http, recorder>>

\* the transport stops: server.ServeStdio returns at end of input or on an
\* error, http.ListenAndServe returns a non-nil error
HostServeReturns(err) ==
    /\ host.pos = "serving"
    /\ host.mode = "http" => err # Nil
    /\ host' = [host EXCEPT !.err = err, !.pos = "returned"]
    /\ UNCHANGED <<data, loaded, sortTie, pc, call, probe, first, scoring, threads, projection, normal, environ, http, recorder>>

\* main: os.Exit(1) when cmd.Run() returned an error, else main returns
HostMainExit ==
    /\ host.pos = "returned"
    /\ host' = [host EXCEPT !.pos = "exited", !.status = IF host.err # Nil THEN 1 ELSE 0]
    /\ UNCHANGED <<data, loaded, sortTie, pc, call, probe, first, scoring, threads, projection, normal, environ, http, recorder>>

\* the steps of main that run to completion once control reaches them
HostProgress == HostNewEngine \/ HostNewServer \/ HostServe \/ HostMainExit

NextStart ==
    \/ HostNewEngine
    \/ HostNewServer
    \/ HostServe
    \/ \E name \in {NoName, NameArg(qMilk), NameArg(qXyz)}, limitArg \in {MissingArg, NumberArg(25)} :
          HostHandle(name, limitArg)
    \/ \E err \in {Nil, ErrServe} : HostServeReturns(err)
    \/ HostMainExit

SpecStart == InitStart /\ [][NextStart]_vars /\ WF_vars(HostProgress)

(***************************************************************************)
(* One application of the projection of a record under a nutrient filter,  *)
(* or of the alias test to two normalised names                            *)
(***************************************************************************)
MaxNutrients == 2

\* Measurements: Energy in kcal and in kJ (also spelled with spaces and in
\* another case), and nutrients the alias rules speak of
MeasurementPool ==
    {FoodNutrient(nEnergy, uKcal, 61), FoodNutrient(nEnergy, uKJ, 256),
     FoodNutrient(nEnergySpaced, uKJSpaced, 255), FoodNutrient(nProtein, uG, 3),
     FoodNutrient(nVitaminCTotal, uMg, 2), FoodNutrient(nPUFA182, uG, 1),
     FoodNutrient(n182, uG, 4)}

PortionPool ==
    {<<>>, <<FoodPortion(1, pCup, pC, 244), FoodPortion(2, pC, pCup, 30)>>}

ProjectionFoods ==
    {FoundationFood(dMilkWhole, 1, ns, ps) :
        ns \in UNION {[1..k -> MeasurementPool] : k \in 0..MaxNutrients}, ps \in PortionPool}

ProjectionFilters ==
    {<<>>, <<nEnergy>>, <<nEnergyLower>>, <<nVitaminC>>, <<nVitaminCTotal>>, <<n182>>,
     <<nPUFA182>>, <<nVitaminC, n182>>, <<qXyz>>, <<qA>>, <<nProtein, nProtein>>,
     <<nEnergy, nProtein>>}

\* Names as shouldIncludeNutrient hands them to isAlternativeNutrientName
AliasNames ==
    {ToLower(TrimSpace(n)) : n \in {nEnergy, nVitaminC, nVitaminCTotal, nPUFA182, n182, kw_pufa}}
    \cup {kw_pufa \o kw_pufa_182, <<>>}

InitProject ==
    /\ data = NilData
    /\ loaded = data
    /\ sortTie = "stable"
    /\ pc = "idle"
    /\ call = NoCall
    /\ probe = NoProbe
    /\ first = NoFirst
    /\ scoring = NoScoring
    /\ threads = NoThreads
    /\ host = NoHost
    /\ projection \in
          {[NoProjection EXCEPT !.kind = "project", !.food = f, !.filter = l] :
              f \in ProjectionFoods, l \in ProjectionFilters}
          \cup {[NoProjection EXCEPT !.kind = "alias", !.dataName = a, !.filterName = b] :
                  a \in AliasNames, b \in AliasNames}
    /\ normal = NoNormal
    /\ environ = NoEnviron
    /\ http = NoHTTP
    /\ recorder = NoRecorder

\* the body of the loop of SearchFoodsByNameSimplified for one found record
Project ==
    /\ projection.kind = "project"
    /\ ~projection.done
    /\ projection' = [projection EXCEPT !.out = simplifyFood(projection.food, projection.filter),
                                        !.done = TRUE]
    /\ UNCHANGED <<data, loaded, sortTie, pc, call, probe, first, scoring, threads, host, normal, environ, http, recorder>>

\* isAlternativeNutrientName on the two names, in both orders
ResolveAlias ==
    /\ projection.kind = "alias"
    /\ ~projection.done
    /\ projection' =
          [projection EXCEPT
              !.alias = <<isAlternativeNutrientName(projection.dataName, projection.filterName),
                          isAlternativeNutrientName(projection.filterName, projection.dataName)>>,
              !.done = TRUE]
    /\ UNCHANGED <<data, loaded, sortTie, pc, call, probe, first, scoring, threads, host, normal, environ, http, recorder>>

NextProject == Project \/ ResolveAlias

SpecProject == InitProject /\ [][NextProject]_vars

(***************************************************************************)
(* normalizeString applied to a string, then to its own result             *)
(***************************************************************************)
MaxNormalizeLen == 3

NormalizeAlphabet == {"a", "B", " ", ",", "("}

tMilkWhole == <<"M", "i", "l", "k", ",", " ", "W", "h", "o", "l", "e">>
tBreadWhite == <<"B", "r", "e", "a", "d", " ", "(", "W", "h", "i", "t", "e", ")">>
tEggsPadded == <<" ", " ", "E", "G", "G", "S", " ", " ">>
tMilkDot == <<"m", "i", "l", "k", " ", ".">>

NormalizeInputs ==
    UNION {[1..k -> NormalizeAlphabet] : k \in 0..MaxNormalizeLen}
        \cup {tMilkWhole, tBreadWhite, tEggsPadded, tMilkDot, dCheeseCottage \o <<".">>}

InitNormalize ==
    /\ data = NilData
    /\ loaded = data
    /\ sortTie = "stable"
    /\ pc = "idle"
    /\ call = NoCall
    /\ probe = NoProbe
    /\ first = NoFirst
    /\ scoring = NoScoring
    /\ threads = NoThreads
    /\ host = NoHost
    /\ projection = NoProjection
    /\ normal \in {[NoNormal EXCEPT !.input = s] : s \in NormalizeInputs}
    /\ environ = NoEnviron
    /\ http = NoHTTP
    /\ recorder = NoRecorder

\* output := normalizeString(input); again := normalizeString(output)
Normalize ==
    /\ ~normal.done
    /\ normal' = [normal EXCEPT !.output = normalizeString(normal.input),
                                !.again = normalizeString(normalizeString(normal.input)),
                                !.done = TRUE]
    /\ UNCHANGED <<data, loaded, sortTie, pc, call, probe, first, scoring, threads, host,
                   projection, environ, http, recorder>>

NextNormalize == Normalize

SpecNormalize == InitNormalize /\ [][NextNormalize]_vars

(***************************************************************************)
(* Configuration: the process environment, the .env file, Config           *)
(***************************************************************************)
MaxEnvLines == 2

keyToken == <<"F", "O", "U", "N", "D", "A", "T", "I", "O", "N", "F", "O", "O", "D", "S", "_", "M", "C", "P", "_", "T", "O", "K", "E", "N">>
keyPort == <<"P", "O", "R", "T">>
defaultToken == <<"s", "u", "p", "e", "r", "-", "s", "e", "c", "r", "e", "t", "-", "t", "o", "k", "e", "n">>
defaultPort == <<"8", "0", "8", "0">>

\* the zero byte, which no environment variable may hold
NUL == "NUL"

\* os.Getenv: the value, "" when the variable is not set
Getenv(env, key) == IF key \in DOMAIN env THEN env[key] ELSE <<>>

\* os.Setenv: fails, and sets nothing, for an empty key, a key with '=' or
\* a zero byte, a value with a zero byte
Setenv(env, key, value) ==
    IF \/ key = <<>>
       \/ \E i \in 1..Len(key) : key[i] \in {"=", NUL}
       \/ \E i \in 1..Len(value) : value[i] = NUL
    THEN env
    ELSE (key :> value) @@ env

\* A line of the file: its text, and whether it is longer than the 64 KiB
\* bufio.Scanner takes as one token
EnvLine(text) == [text |-> text, tooLong |-> FALSE]
LongLine(text) == [text |-> text, tooLong |-> TRUE]

\* for scanner.Scan(): the lines ahead of the first one that is too long
RECURSIVE scannedLines(_)
scannedLines(lines) ==
    IF lines = <<>> \/ Head(lines).tooLong THEN <<>>
    ELSE <<Head(lines).text>> \o scannedLines(Tail(lines))

\* strings.SplitN(line, "=", 2)
SplitAtEquals(line) ==
    LET at == {i \in 1..Len(line) : line[i] = "="}
    IN  IF at = {} THEN <<line>>
        ELSE LET i == CHOOSE a \in at : \A b \in at : a <= b
             IN  <<SubSeq(line, 1, i - 1), SubSeq(line, i + 1, Len(line))>>

\* Faulty variant: the line's value replaces the one in the environment
envAfterLine_overrides(env, text) ==
    LET line == TrimSpace(text)
        parts == SplitAtEquals(line)
    IN  IF line = <<>> \/ HasPrefix(line, <<"#">>) THEN env
        ELSE IF Len(parts) # 2 THEN env
        ELSE Setenv(env, TrimSpace(parts[1]), TrimSpace(parts[2]))

\* The body of the scan loop of loadEnvFileWithReader
envAfterLine(env, text) ==
    LET line == TrimSpace(text)
        parts == SplitAtEquals(line)
    IN  IF line = <<>> \/ HasPrefix(line, <<"#">>) THEN env
        ELSE IF Len(parts) # 2 THEN env
        ELSE LET key == TrimSpace(parts[1])
                 value == TrimSpace(parts[2])
             IN  IF Getenv(env, key) = <<>> THEN Setenv(env, key, value) ELSE env

RECURSIVE envAfterLines(_, _)
envAfterLines(env, texts) ==
    IF texts = <<>> THEN env
    ELSE envAfterLines(envAfterLine(env, Head(texts)), Tail(texts))

loadEnvFileWithReader(env, file) ==
    IF file.missing THEN env ELSE envAfterLines(env, scannedLines(file.lines))

getEnv(env, key, defaultValue) ==
    IF Getenv(env, key) # <<>> THEN Getenv(env, key) ELSE defaultValue

\* LoadWithFileReader: the environment it leaves and the Config it returns
\* (of Config, the token and the port)
LoadWithFileReader(env, file) ==
    LET loadedEnv == loadEnvFileWithReader(env, file)
    IN  [env |-> loadedEnv,
         config |-> [AuthToken |-> getEnv(loadedEnv, keyToken, defaultToken),
                     Port |-> getEnv(loadedEnv, keyPort, defaultPort)]]

EnvPool ==
    {pt @@ tk : pt \in {<<>>, keyPort :> <<>>, keyPort :> <<"9">>},
                tk \in {<<>>, keyToken :> <<"s">>}}

EnvLinePool ==
    {EnvLine(keyPort \o <<"=", "1">>),
     EnvLine(keyPort \o <<"=", "2">>),
     EnvLine(keyPort \o <<"=">>),
     EnvLine(<<" ">> \o keyPort \o <<" ", "=", " ", "3", " ">>),
     EnvLine(<<"#", " ">> \o keyPort \o <<"=", "4">>),
     EnvLine(<<>>),
     EnvLine(keyPort),
     EnvLine(<<"=", "5">>),
     EnvLine(keyToken \o <<"=", "a", "=", "b">>),
     EnvLine(keyPort \o <<"=", NUL>>),
     LongLine(<<"#">>)}

EnvFilePool ==
    {[missing |-> TRUE, lines |-> <<>>]}
        \cup {[missing |-> FALSE, lines |-> l] :
                l \in UNION {[1..k -> EnvLinePool] : k \in 0..MaxEnvLines}}

InitEnv ==
    /\ data = NilData
    /\ loaded = data
    /\ sortTie = "stable"
    /\ pc = "idle"
    /\ call = NoCall
    /\ probe = NoProbe
    /\ first = NoFirst
    /\ scoring = NoScoring
    /\ threads = NoThreads
    /\ host = NoHost
    /\ projection = NoProjection
    /\ normal = NoNormal
    /\ environ \in {[NoEnviron EXCEPT !.before = e, !.env = e, !.file = f] :
                        e \in EnvPool, f \in EnvFilePool}
    /\ http = NoHTTP
    /\ recorder = NoRecorder

\* cfg := config.Load()
Load ==
    /\ ~environ.loaded
    /\ LET r == LoadWithFileReader(environ.env, environ.file)
       IN  environ' = [environ EXCEPT !.env = r.env, !.config = r.config, !.loaded = TRUE]
    /\ UNCHANGED <<data, loaded, sortTie, pc, call, probe, first, scoring, threads, host,
                   projection, normal, http, recorder>>

NextEnv == Load

SpecEnv == InitEnv /\ [][NextEnv]_vars

\* net/http status codes
StatusOK == 200
StatusUnauthorized == 401
StatusMethodNotAllowed == 405
StatusInternalServerError == 500

(***************************************************************************)
(* HTTP mode: the configuration is loaded, the server starts with the      *)
(* configured token, and requests to /health and /mcp are served           *)
(***************************************************************************)
MaxHTTPRequests == 2

bearerScheme == <<"B", "e", "a", "r", "e", "r", " ">>
bodyUnauthorized == <<"U", "n", "a", "u", "t", "h", "o", "r", "i", "z", "e", "d">>
bodyHealthy == <<"h", "e", "a", "l", "t", "h", "y">>

\* http.Request: path, method, and the Authorization header if there is one
NoAuthorization(path, method) ==
    [path |-> path, method |-> method, hasAuthorization |-> FALSE, authorization |-> <<>>]
WithAuthorization(path, method, value) ==
    [path |-> path, method |-> method, hasAuthorization |-> TRUE, authorization |-> value]

\* auth.BearerTokenAuth.IsAuthorized: the Authorization header is "Bearer "
\* followed by the token the authenticator was created with
IsAuthorized(token, req) ==
    /\ req.hasAuthorization
    /\ req.authorization = bearerScheme \o token

\* Faulty variant: the handler answers 401 and goes on to forward the request
mcpEndpoint_goesOn(token, req) ==
    IF ~IsAuthorized(token, req)
    THEN [status |-> StatusUnauthorized, body |-> bodyUnauthorized, forwarded |-> TRUE]
    ELSE [status |-> 0, body |-> <<>>, forwarded |-> TRUE]

\* The handler of "/mcp" up to the call of streamableServer.ServeHTTP: what
\* it has written itself, and whether it forwards the request
mcpEndpoint(token, req) ==
    IF ~IsAuthorized(token, req)
    THEN [status |-> StatusUnauthorized, body |-> bodyUnauthorized, forwarded |-> FALSE]
    ELSE [status |-> 0, body |-> <<>>, forwarded |-> TRUE]

\* The handler of "/health"
healthEndpoint(req) ==
    IF req.method # "GET"
    THEN [status |-> StatusMethodNotAllowed, body |-> <<>>, forwarded |-> FALSE]
    ELSE [status |-> StatusOK, body |-> bodyHealthy, forwarded |-> FALSE]

HTTPEnvPool == {<<>>, keyToken :> <<"s">>}

HTTPFilePool ==
    {[missing |-> TRUE, lines |-> <<>>],
     [missing |-> FALSE, lines |-> <<EnvLine(keyPort \o <<"=", "1">>)>>],
     [missing |-> FALSE, lines |-> <<EnvLine(keyToken \o <<"=", "a", "=", "b">>)>>]}

AuthorizationPool ==
    {bearerScheme \o <<"s">>,
     bearerScheme \o <<"a", "=", "b">>,
     bearerScheme \o <<"w", "r", "o", "n", "g", "-", "a", "p", "i", "-", "k", "e", "y">>,
     bearerScheme \o defaultToken,
     <<"s">>}

RequestPool ==
    {NoAuthorization(p, m) : p \in {"/mcp", "/health"}, m \in {"GET", "POST"}}
        \cup {WithAuthorization(p, m, a) :
                p \in {"/mcp", "/health"}, m \in {"GET", "POST"}, a \in AuthorizationPool}

InitHTTP ==
    /\ data = LoadedData(testFoods)
    /\ loaded = data
    /\ sortTie = "stable"
    /\ pc = "idle"
    /\ call = NoCall
    /\ probe = NoProbe
    /\ first = NoFirst
    /\ scoring = NoScoring
    /\ threads = NoThreads
    /\ host = NoHost
    /\ projection = NoProjection
    /\ normal = NoNormal
    /\ environ \in {[NoEnviron EXCEPT !.before = e, !.env = e, !.file = f] :
                        e \in HTTPEnvPool, f \in HTTPFilePool}
    /\ http = NoHTTP
    /\ recorder = NoRecorder

\* runHTTPMode after config.Load(): the engine is there, the authenticator
\* gets cfg.AuthToken, the server listens
HTTPStart ==
    /\ environ.loaded
    /\ http.pos = "none"
    /\ http' = [http EXCEPT !.pos = "serving", !.token = environ.config.AuthToken]
    /\ UNCHANGED <<data, loaded, sortTie, pc, call, probe, first, scoring, threads, host,
                   projection, normal, environ, recorder>>

\* GET or POST /health
HTTPHealth(req) ==
    /\ http.pos = "serving"
    /\ http.served < MaxHTTPRequests
    /\ req.path = "/health"
    /\ LET answer == healthEndpoint(req)
       IN  http' = [http EXCEPT !.req = req, !.status = answer.status, !.body = answer.body,
                                !.forwarded = answer.forwarded, !.ran = FALSE,
                                !.served = @ + 1]
    /\ UNCHANGED <<data, loaded, sortTie, pc, call, probe, first, scoring, threads, host,
                   projection, normal, environ, recorder>>

\* GET or POST /mcp. A forwarded request is answered by the MCP server with
\* status libraryStatus; a forwarded POST is a tools/call of the search tool
HTTPMcp(req, libraryStatus) ==
    /\ http.pos = "serving"
    /\ http.served < MaxHTTPRequests
    /\ req.path = "/mcp"
    /\ LET answer == mcpEndpoint(http.token, req)
           runs == answer.forwarded /\ req.method = "POST"
       IN  /\ http' = [http EXCEPT !.req = req,
                                   !.status = IF answer.forwarded THEN libraryStatus
                                              ELSE answer.status,
                                   !.body = answer.body,
                                   !.forwarded = answer.forwarded,
                                   !.ran = runs,
                                   !.served = @ + 1]
           /\ call' = IF runs
                      THEN [op |-> "handleFoodSearch",
                            args |-> [name |-> NameArg(qMilk), limit |-> MissingArg],
                            ret |-> handleFoodSearch(data, sortTie, NameArg(qMilk), MissingArg)]
                      ELSE call
           /\ data' = IF runs THEN dataAfterSearch(data, sortTie, qMilk) ELSE data
    /\ UNCHANGED <<loaded, sortTie, pc, probe, first, scoring, threads, host,
                   projection, normal, environ, recorder>>

NextHTTP ==
    \/ Load
    \/ HTTPStart
    \/ \E req \in RequestPool : HTTPHealth(req)
    \/ \E req \in RequestPool, libraryStatus \in {StatusOK, StatusInternalServerError} :
          HTTPMcp(req, libraryStatus)

SpecHTTP == InitHTTP /\ [][NextHTTP]_vars

(***************************************************************************)
(* responseRecorder: calls of WriteHeader and Write on the recorder, and   *)
(* the calls it makes on the http.ResponseWriter it wraps                  *)
(***************************************************************************)
MaxRecorderCalls == 3
MaxWrite == 2

WriteHeaderCall(code) == [op |-> "WriteHeader", code |-> code, len |-> 0, n |-> 0]
WriteCall(len, n) == [op |-> "Write", code |-> 0, len |-> len, n |-> n]

\* Faulty variant: every WriteHeader is recorded and passed on
WriteHeader_unguarded(r, code) ==
    [r EXCEPT !.statusCode = code,
              !.headerWritten = TRUE,
              !.wrapped = Append(@, WriteHeaderCall(code))]

\* func (r *responseRecorder) WriteHeader(code int)
WriteHeader(r, code) ==
    IF r.headerWritten THEN r
    ELSE [r EXCEPT !.statusCode = code,
                   !.headerWritten = TRUE,
                   !.wrapped = Append(@, WriteHeaderCall(code))]

\* func (r *responseRecorder) Write(data []byte): len is len(data), n the
\* count the wrapped writer returns
Write(r, len, n) ==
    LET r1 == IF ~r.headerWritten THEN WriteHeader(r, StatusOK) ELSE r
    IN  [r1 EXCEPT !.wrapped = Append(@, WriteCall(len, n)),
                   !.bytesWritten = @ + n]

InitRecorder ==
    /\ data = NilData
    /\ loaded = data
    /\ sortTie = "stable"
    /\ pc = "idle"
    /\ call = NoCall
    /\ probe = NoProbe
    /\ first = NoFirst
    /\ scoring = NoScoring
    /\ threads = NoThreads
    /\ host = NoHost
    /\ projection = NoProjection
    /\ normal = NoNormal
    /\ environ = NoEnviron
    /\ http = NoHTTP
    /\ recorder = NoRecorder

RecorderWriteHeader(code) ==
    /\ Len(recorder.calls) < MaxRecorderCalls
    /\ recorder' = [WriteHeader(recorder, code) EXCEPT !.calls = Append(@, WriteHeaderCall(code))]
    /\ UNCHANGED <<data, loaded, sortTie, pc, call, probe, first, scoring, threads, host,
                   projection, normal, environ, http>>

RecorderWrite(len, n) ==
    /\ Len(recorder.calls) < MaxRecorderCalls
    /\ recorder' = [Write(recorder, len, n) EXCEPT !.calls = Append(@, WriteCall(len, n))]
    /\ UNCHANGED <<data, loaded, sortTie, pc, call, probe, first, scoring, threads, host,
                   projection, normal, environ, http>>

NextRecorder ==
    \/ \E code \in {StatusOK, StatusUnauthorized, StatusInternalServerError} :
          RecorderWriteHeader(code)
    \/ \E len \in 0..MaxWrite : \E n \in 0..len : RecorderWrite(len, n)

SpecRecorder == InitRecorder /\ [][NextRecorder]_vars

(***************************************************************************)
(* Properties of SearchFoodsByName and its callers                         *)
(***************************************************************************)
SearchReturned == pc = "returned" /\ call.op = "SearchFoodsByName"
SimplifiedReturned == pc = "returned" /\ call.op = "SearchFoodsByNameSimplified"

corpus == data.FoundationFoods

\* The score of corpus record i for the query of the call
scoreAt(i, query) == Score(corpus[i].Description, query)

positives(query) == {i \in 1..Len(corpus) : RatGT(scoreAt(i, query), RatZero)}

occurrences(seq, v) == Cardinality({i \in 1..Len(seq) : seq[i] = v})

\* The limit the documentation promises: 3 for limit <= 0, at most 10
promisedLimit(limit) == IF limit <= 0 THEN 3 ELSE IF limit > 10 THEN 10 ELSE limit

\* C1: two corpus records of equal positive score appear in the result in
\* corpus order: the earlier one is returned whenever the later one is, and
\* stands before it (stated for records that occur once in the corpus, so
\* that a returned record identifies its corpus index).
C1_TiesKeepCorpusOrder ==
    (SearchReturned /\ call.ret.err = Nil) =>
        \A a, b \in 1..Len(corpus) :
            ( /\ a < b
              /\ scoreAt(a, call.args.query) = scoreAt(b, call.args.query)
              /\ RatGT(scoreAt(a, call.args.query), RatZero)
              /\ occurrences(corpus, corpus[a]) = 1
              /\ occurrences(corpus, corpus[b]) = 1 )
            => \A p \in 1..Len(call.ret.foods) :
                  call.ret.foods[p] = corpus[b] =>
                      \E p2 \in 1..(p - 1) : call.ret.foods[p2] = corpus[a]

\* C3: on an unset corpus and on a loaded corpus of zero records alike,
\* SearchFoodsByName and SearchFoodsByNameSimplified return an error.
C3_NotReadyIsAnError ==
    ( /\ SearchReturned \/ SimplifiedReturned
      /\ data.isNil \/ Len(corpus) = 0 )
    => call.ret.err # Nil

\* C5: a description equal to the query after normalization scores strictly
\* higher than every description that is not, so a search with limit 1
\* returns an exactly matching record whenever the corpus holds one.
C5_ExactMatchRanksFirst ==
    ( /\ SearchReturned
      /\ call.ret.err = Nil
      /\ Fields(normalizeString(call.args.query)) # <<>> )
    => LET normalizedQuery == normalizeString(call.args.query)
           exact == {i \in 1..Len(corpus) :
                        normalizeString(corpus[i].Description) = normalizedQuery}
       IN  /\ \A i \in exact : \A j \in (1..Len(corpus)) \ exact :
                  RatGT(scoreAt(i, call.args.query), scoreAt(j, call.args.query))
           /\ exact # {} =>
                  /\ Len(call.ret.foods) >= 1
                  /\ normalizeString(call.ret.foods[1].Description) = normalizedQuery

\* The integer part of a number given in tenths
integerPart(tenths) ==
    CHOOSE n \in -1000..1000 :
        \/ tenths >= 0 /\ 10 * n <= tenths /\ tenths < 10 * n + 10
        \/ tenths < 0 /\ 10 * n >= tenths /\ tenths > 10 * n - 10

\* The limit a tool call asks for: 3 when the argument is absent or not a
\* number, else the integer part of the number, clamped
promisedToolLimit(arg) ==
    IF arg.kind = "number" THEN promisedLimit(integerPart(arg.tenths)) ELSE 3

HandlerReturned == pc = "returned" /\ call.op = "handleFoodSearch"
SimplifiedHandlerReturned == pc = "returned" /\ call.op = "handleSimplifiedFoodSearch"

\* C6: the limit is clamped and never rejected: SearchFoodsByName with
\* limit <= 0 returns what it returns with 3, with limit > 10 what it returns
\* with 10, and its only error is the unset corpus; the tool handlers search
\* with the clamped integer part of their argument, with 3 when it is absent
\* or not a number, and fail only for a missing or empty name or an unset
\* corpus.
C6_LimitIsClamped ==
    /\ SearchReturned =>
          /\ call.ret = SearchFoodsByName(data, sortTie, call.args.query,
                                          promisedLimit(call.args.limit))
          /\ call.ret.err # Nil <=> data.isNil
          /\ Len(call.ret.foods) <= promisedLimit(call.args.limit)
    /\ HandlerReturned =>
          /\ call.ret.isError <=>
                 \/ ~call.args.name.present
                 \/ Len(call.args.name.value) < 1
                 \/ data.isNil
          /\ ~call.ret.isError =>
                 /\ call.ret.response[1].Products =
                       SearchFoodsByName(data, sortTie, call.args.name.value,
                                         promisedToolLimit(call.args.limit)).foods
                 /\ call.ret.response[1].Count <= promisedToolLimit(call.args.limit)
    /\ SimplifiedHandlerReturned =>
          /\ call.ret.isError <=>
                 \/ ~call.args.name.present
                 \/ Len(call.args.name.value) < 1
                 \/ data.isNil
          /\ ~call.ret.isError =>
                 /\ call.ret.response =
                       SearchFoodsByNameSimplified(data, sortTie, call.args.name.value,
                                                   promisedToolLimit(call.args.limit), <<>>).resp
                 /\ call.ret.response[1].Count <= promisedToolLimit(call.args.limit)

\* A tool call with limit 11.0 on a corpus with more than 10 matches returned 10
C6_Witness ==
    /\ HandlerReturned
    /\ call.args.limit = NumberArg(110)
    /\ ~call.ret.isError
    /\ call.ret.response[1].Count = 10
    /\ Cardinality(positives(call.args.name.value)) > 10

\* C7: SearchFoodsByName returns exactly min(L, P) records, L the clamped
\* limit and P the number of corpus records of score > 0: each returned
\* record is a corpus record of score > 0, no record is returned more often
\* than the corpus holds it, the scores do not increase along the list, and
\* no record left out scores strictly higher than a returned one.
C7_TopOfThePositives ==
    (SearchReturned /\ call.ret.err = Nil) =>
        LET foods == call.ret.foods
            query == call.args.query
            L == promisedLimit(call.args.limit)
            P == Cardinality(positives(query))
        IN  /\ Len(foods) = IF L < P THEN L ELSE P
            /\ \A p \in 1..Len(foods) :
                  /\ \E i \in positives(query) : corpus[i] = foods[p]
                  /\ occurrences(foods, foods[p]) <= occurrences(corpus, foods[p])
            /\ \A p \in 1..(Len(foods) - 1) :
                  ~RatGT(Score(foods[p + 1].Description, query),
                         Score(foods[p].Description, query))
            /\ \A i \in 1..Len(corpus) :
                  occurrences(foods, corpus[i]) < occurrences(corpus, corpus[i]) =>
                      \A p \in 1..Len(foods) :
                          ~RatGT(scoreAt(i, query), Score(foods[p].Description, query))

\* A search that had to drop positive records and to reorder the ones it kept
C7_Witness ==
    /\ SearchReturned
    /\ call.ret.err = Nil
    /\ Len(call.ret.foods) = 2
    /\ Cardinality(positives(call.args.query)) > 2
    /\ RatGT(Score(call.ret.foods[1].Description, call.args.query),
             Score(call.ret.foods[2].Description, call.args.query))
    /\ call.ret.foods[1] # corpus[1]

\* C8: on a loaded corpus a query for which no record scores above 0 (among
\* them the queries of zero words) gives an empty list and a nil error from
\* SearchFoodsByName, and {found: false, count: 0, foods: []} and a nil error
\* from SearchFoodsByNameSimplified.
C8_NoMatchIsNotAnError ==
    /\ ( /\ SearchReturned
         /\ ~data.isNil
         /\ positives(call.args.query) = {} )
       => call.ret = [foods |-> <<>>, err |-> Nil]
    /\ ( /\ SimplifiedReturned
         /\ ~data.isNil
         /\ positives(call.args.query) = {} )
       => call.ret = [resp |-> <<[Found |-> FALSE, Count |-> 0, Foods |-> <<>>]>>, err |-> Nil]

\* A punctuation-only query against a corpus of several records
C8_Witness ==
    /\ SimplifiedReturned
    /\ call.args.query = qPunct
    /\ Len(corpus) >= 4
    /\ positives(call.args.query) = {}
    /\ call.ret.err = Nil
    /\ ~call.ret.resp[1].Found

\* C9: no engine operation changes the loaded corpus: whatever calls have
\* returned, and whatever the caller did to a record it got from
\* GetFoodByFdcId, e.data holds the records, the order and the field values
\* it held after construction.
C9_CorpusNeverChanges == data = loaded

\* A search whose ranking differs from the corpus order has returned
C9_Witness ==
    /\ SearchReturned
    /\ call.ret.err = Nil
    /\ Len(call.ret.foods) >= 2
    /\ call.ret.foods[1] # corpus[1]
    /\ data = loaded
\* ---------------------------------------------------------------- C2
repeated == SearchReturned /\ first.calls >= 1
              /\ call.args = [query |-> probe.query, limit |-> probe.limit]

descWordsOf(description) == Fields(normalizeString(description))
queryWordsOf(query) == Fields(normalizeString(query))
wordSet(words) == {words[i] : i \in 1..Len(words)}

\* C4 as stated: a description and a query of at least one word that have
\* no word in common after normalisation score 0
C4_NoCommonWordScoresZero ==
    (/\ scoring.done
     /\ queryWordsOf(scoring.query) # <<>>
     /\ wordSet(descWordsOf(scoring.description)) \cap wordSet(queryWordsOf(scoring.query)) = {})
    => scoring.score = RatZero

noWordContains(description, query) ==
    \A dw \in wordSet(descWordsOf(description)), qw \in wordSet(queryWordsOf(query)) :
        ~Contains(dw, qw)

\* C4 amended: a description and a query of at least one word score 0
\* when no word of the normalised description contains a word of the
\* normalised query
C4_NoContainedWordScoresZero ==
    (/\ scoring.done
     /\ queryWordsOf(scoring.query) # <<>>
     /\ noWordContains(scoring.description, scoring.query))
    => scoring.score = RatZero

\* scored 0: both sides have words, some letters are shared, no word contains one
C4_Witness ==
    /\ scoring.done
    /\ queryWordsOf(scoring.query) # <<>>
    /\ descWordsOf(scoring.description) # <<>>
    /\ noWordContains(scoring.description, scoring.query)
    /\ \E dw \in wordSet(descWordsOf(scoring.description)) :
          \E qw \in wordSet(queryWordsOf(scoring.query)) : Contains(qw, dw) /\ qw # dw
    /\ scoring.score = RatZero

\* --------------------------------------------------------------- C10
\* what the call of a thread returns when no other call runs
aloneAnswer(th) ==
    CASE th.op = "SearchFoodsByName" ->
             SearchFoodsByName(loaded, sortTie, th.query, th.limit)
      [] th.op = "SearchFoodsByNameSimplified" ->
             SearchFoodsByNameSimplified(loaded, sortTie, th.query, th.limit, ConcFilter)
      [] th.op = "GetFoodByFdcId" -> GetFoodByFdcId(loaded, th.fdcId)
      [] th.op = "Health" -> [err |-> Health(loaded)]

\* C10: with calls of the four operations interleaved on one engine, every
\* call that has finished holds the answer it gives when it runs alone, every
\* call in progress can take its next step whatever the other callers are
\* doing, and the engine's data is what was loaded
C10_InterleavedCallsRunAsAlone ==
    /\ \A t \in DOMAIN threads :
          threads[t].pc = "done" => threads[t].ret = aloneAnswer(threads[t])
    /\ \A t \in DOMAIN threads : threads[t].pc # "idle" => (canScan(t) \/ canFinish(t) \/ canReturn(t))
    /\ data = loaded

\* a search has finished with two records while another caller is in the
\* middle of its scan
C10_Witness ==
    \E t \in DOMAIN threads, u \in DOMAIN threads :
        /\ t # u
        /\ threads[t].pc = "done"
        /\ threads[t].op = "SearchFoodsByName"
        /\ Len(threads[t].ret.foods) = 2
        /\ threads[t].ret = aloneAnswer(threads[t])
        /\ threads[u].pc = "scan"
        /\ threads[u].op = "SearchFoodsByNameSimplified"
        /\ threads[u].i > 1
        /\ threads[u].i <= Len(data.FoundationFoods)

\* --------------------------------------------------------------- C11
badFile == host.file.kind \in {"unreadable", "malformed"}
newEngineReturned == host.pos \notin {"none", "start"}
serverExists == host.server \/ host.pos \in {"serverCreated", "serving"} \/ host.handled > 0

\* C11: in stdio and in HTTP mode a server exists, serves or has handled a
\* request only when NewEngine returned an engine and no error; with an
\* unreadable or malformed data file NewEngine returns a nil engine and an
\* error, no server is ever created or started, no request is ever handled,
\* and the process exits with status 1
C11_ServesOnlyAfterLoad ==
    /\ [](serverExists => (~host.engineNil /\ ~data.isNil /\ host.file.kind = "ok"))
    /\ []((badFile /\ newEngineReturned) =>
            (/\ host.engineNil
             /\ host.err # Nil
             /\ ~serverExists
             /\ host.pos = "exited" => host.status = 1))
    /\ (badFile ~> (host.pos = "exited" /\ host.status = 1))

\* the process has exited with status 1 on a malformed file, in HTTP mode
C11_Witness ==
    /\ host.file.kind = "malformed"
    /\ host.mode = "http"
    /\ host.pos = "exited"
    /\ host.status = 1
    /\ host.engineNil
    /\ ~host.server

\* --------------------------------------------------------------- C12
HealthReturned == pc = "returned" /\ call.op = "Health"

\* C12: Health returns an error exactly when the data is nil or the corpus
\* has no records
C12_HealthErrorIffNoRecords ==
    HealthReturned => ((call.ret.err # Nil) <=> (data.isNil \/ Len(corpus) = 0))

\* Health has answered "empty" on a loaded corpus without records
C12_Witness ==
    /\ HealthReturned
    /\ ~data.isNil
    /\ Len(corpus) = 0
    /\ call.ret.err = ErrEmpty

\* --------------------------------------------------------------- C13
idsAt(fdcId) == {i \in 1..Len(corpus) : corpus[i].FdcId = fdcId}
firstAt(fdcId) == CHOOSE i \in idsAt(fdcId) : \A j \in idsAt(fdcId) : i <= j

lookupContract(fdcId, ret) ==
    IF data.isNil THEN ret.food = <<>> /\ ret.err = ErrNotLoaded
    ELSE IF idsAt(fdcId) = {} THEN ret.food = <<>> /\ ret.err = ErrNotFound
    ELSE ret.err = Nil /\ ret.food = <<corpus[firstAt(fdcId)]>>

\* C13: every call of GetFoodByFdcId(id) returns, on a loaded corpus, the
\* first record in corpus order whose FdcId is id and a nil error if there is
\* one, no record and the "not found" error if there is none, and on nil
\* data no record and the "not loaded" error
C13_LookupReturnsFirstWithId ==
    [][(pc = "idle" /\ pc' = "returned" /\ call'.op = "GetFoodByFdcId")
         => lookupContract(call'.args.fdcId, call'.ret)]_vars

\* a lookup has returned the first of two records that share the FdcId
C13_Witness ==
    /\ pc = "returned"
    /\ call.op = "GetFoodByFdcId"
    /\ Cardinality(idsAt(call.args.fdcId)) = 2
    /\ \E i \in idsAt(call.args.fdcId) : corpus[i] # corpus[firstAt(call.args.fdcId)]
    /\ call.ret.food = <<corpus[firstAt(call.args.fdcId)]>>
    /\ call.ret.err = Nil

\* ------------------------------------------------------- C14 .. C19
projected == projection.kind = "project" /\ projection.done
aliasTested == projection.kind = "alias" /\ projection.done

normalName(name) == ToLower(TrimSpace(name))

kilojouleEnergy(name, unitName) == normalName(name) = kw_energy /\ normalName(unitName) = kw_kj
kilocalorieEnergy(name, unitName) == normalName(name) = kw_energy /\ normalName(unitName) = uKcal

\* the alias rules in words: one name is the other with "pufa " in front, or
\* the two are the vitamin C pair
aliased(a, b) ==
    \/ a = kw_pufa \o b
    \/ b = kw_pufa \o a
    \/ {a, b} = {kw_vitamin_c, kw_vitamin_c_total}

matchesFilter(name, filter) ==
    \E k \in 1..Len(filter) :
        \/ normalName(name) = normalName(filter[k])
        \/ aliased(normalName(name), normalName(filter[k]))

measurementsOf(food, P(_)) ==
    {i \in 1..Len(food.FoodNutrients) : P(food.FoodNutrients[i])}

wanted(m, filter) ==
    /\ ~kilojouleEnergy(m.Nutrient.Name, m.Nutrient.UnitName)
    /\ Len(filter) = 0 \/ matchesFilter(m.Nutrient.Name, filter)

amounts(seq) == [i \in 1..Len(seq) |-> seq[i].Amount]

\* C15: the nutrients of a projection are the measurements of the record
\* that are not Energy in kJ and, when the filter is not empty, whose
\* trimmed lower-cased name equals that of a filter entry or is an alias of
\* it; with an empty filter, all that are not Energy in kJ
C15_IncludedIffMatches ==
    projected =>
        amounts(projection.out.Nutrients)
          = amounts(SelectSeq(projection.food.FoodNutrients,
                              LAMBDA m : wanted(m, projection.filter)))

\* of two measurements the filter ["18:2"] has kept "PUFA 18:2" and dropped the other
C15_Witness ==
    /\ projected
    /\ projection.filter = <<n182>>
    /\ Len(projection.food.FoodNutrients) = 2
    /\ Len(projection.out.Nutrients) = 1
    /\ projection.out.Nutrients[1].Name = nPUFA182

C17_AliasIsSymmetric ==
    /\ aliasTested =>
          /\ projection.alias[1] = projection.alias[2]
          /\ aliased(projection.dataName, projection.filterName) => projection.alias[1]
    /\ (projected /\ projection.filter = <<nVitaminC>>) =>
          LET isVitaminCTotal(m) == m.Nutrient.Name = nVitaminCTotal
          IN  Cardinality(measurementsOf(projection.food, isVitaminCTotal))
                = Cardinality({i \in 1..Len(projection.out.Nutrients) :
                                  projection.out.Nutrients[i].Name = nVitaminCTotal})

\* the data name carries the prefix, the filter name does not: a match both ways
C17_Witness ==
    /\ aliasTested
    /\ projection.dataName = kw_pufa_182
    /\ projection.filterName = TrimPrefix(kw_pufa_182, kw_pufa)
    /\ projection.alias = <<TRUE, TRUE>>

RECURSIVE isSubsequence(_, _)
isSubsequence(a, b) ==
    IF a = <<>> THEN TRUE
    ELSE IF b = <<>> THEN FALSE
    ELSE IF Head(a) = Head(b) THEN isSubsequence(Tail(a), Tail(b))
    ELSE isSubsequence(a, Tail(b))

\* C19: the nutrients of a projection are, in order, some of the record's
\* measurements with name, unit name, amount, data points, min, max and
\* median as measured; its portions are the record's portions, one for one
\* and in order, with value, unit name, abbreviation, gram weight and amount
\* as recorded, whatever the filter
C19_ProjectionKeepsOrderAndValues ==
    projected =>
        LET measured == projection.food.FoodNutrients
            portions == projection.food.FoodPortions
        IN  /\ isSubsequence(projection.out.Nutrients,
                             [i \in 1..Len(measured) |->
                                 [Name |-> measured[i].Nutrient.Name,
                                  UnitName |-> measured[i].Nutrient.UnitName,
                                  Amount |-> measured[i].Amount,
                                  DataPoints |-> measured[i].DataPoints,
                                  Min |-> measured[i].Min,
                                  Max |-> measured[i].Max,
                                  Median |-> measured[i].Median]])
            /\ Len(projection.out.FoodPortions) = Len(portions)
            /\ \A i \in 1..Len(portions) :
                  /\ projection.out.FoodPortions[i].Value = portions[i].Value
                  /\ projection.out.FoodPortions[i].MeasureUnit.Name = portions[i].MeasureUnit.Name
                  /\ projection.out.FoodPortions[i].MeasureUnit.Abbreviation
                       = portions[i].MeasureUnit.Abbreviation
                  /\ projection.out.FoodPortions[i].GramWeight = portions[i].GramWeight
                  /\ projection.out.FoodPortions[i].Amount = portions[i].Amount

\* two nutrients kept in the record's order under a filter that names them
\* in the other order, and two portions
C19_Witness ==
    /\ projected
    /\ projection.filter = <<nEnergy, nProtein>>
    /\ Len(projection.out.Nutrients) = 2
    /\ projection.out.Nutrients[1].Name = nProtein
    /\ projection.out.Nutrients[2].Name = nEnergy
    /\ Len(projection.out.FoodPortions) = 2

\* --------------------------------------------------------------- C18
\* C18: a filter never makes the simplified search fail: on loaded data it
\* returns, in order, every food the search finds, each with a non-nil
\* nutrients list and all of its portions, and the nutrients list of a food
\* none of whose measurements an entry of the filter matches is empty
C18_UnmatchedFilterIsNotAnError ==
    (SimplifiedReturned /\ ~data.isNil) =>
        LET found == SearchFoodsByName(data, sortTie, call.args.query, call.args.limit).foods
            filter == call.args.filter
        IN  /\ call.ret.err = Nil
            /\ Len(call.ret.resp) = 1
            /\ Len(call.ret.resp[1].Foods) = Len(found)
            /\ \A i \in 1..Len(found) :
                  LET food == call.ret.resp[1].Foods[i]
                  IN  /\ food.Name = found[i].Description
                      /\ Len(food.FoodPortions) = Len(found[i].FoodPortions)
                      /\ ~food.NutrientsIsNil
                      /\ (/\ Len(filter) > 0
                          /\ \A k \in 1..Len(found[i].FoodNutrients) :
                                ~matchesFilter(found[i].FoodNutrients[k].Nutrient.Name, filter))
                         => food.Nutrients = <<>>

\* a food with measurements and a portion, under a filter of two names that
\* match none of them, is returned without nutrients and with its portion
C18_Witness ==
    /\ SimplifiedReturned
    /\ call.ret.err = Nil
    /\ Len(call.args.filter) = 2
    /\ Len(call.ret.resp[1].Foods) >= 1
    /\ call.ret.resp[1].Foods[1].Nutrients = <<>>
    /\ Len(call.ret.resp[1].Foods[1].FoodPortions) = 1
    /\ \E i \in 1..Len(corpus) :
          /\ corpus[i].Description = call.ret.resp[1].Foods[1].Name
          /\ Len(corpus[i].FoodNutrients) > 0

\* --------------------------------------------------------------- C20
\* C20: in the response of a successful SearchFoodsByNameSimplified and in
\* the response of a successful search tool call, count is the number of
\* items and found says that count is positive
C20_CountAndFoundAgree ==
    /\ (SimplifiedReturned /\ call.ret.err = Nil) =>
          /\ call.ret.resp[1].Count = Len(call.ret.resp[1].Foods)
          /\ call.ret.resp[1].Found = (call.ret.resp[1].Count > 0)
    /\ (HandlerReturned /\ ~call.ret.isError) =>
          /\ call.ret.response[1].Count = Len(call.ret.response[1].Products)
          /\ call.ret.response[1].Found = (call.ret.response[1].Count > 0)
    /\ (SimplifiedHandlerReturned /\ ~call.ret.isError) =>
          /\ call.ret.response[1].Count = Len(call.ret.response[1].Foods)
          /\ call.ret.response[1].Found = (call.ret.response[1].Count > 0)

\* a successful simplified search without items: found is false, count is 0
C20_Witness ==
    /\ SimplifiedReturned
    /\ call.ret.err = Nil
    /\ Len(corpus) > 0
    /\ call.ret.resp[1].Foods = <<>>
    /\ call.ret.resp[1].Count = 0
    /\ ~call.ret.resp[1].Found

\* --------------------------------------------------------------- C21
toUpperChar(c) ==
    IF \E k \in 1..Len(LowerCase) : LowerCase[k] = c
    THEN UpperCase[CHOOSE k \in 1..Len(LowerCase) : LowerCase[k] = c]
    ELSE c

\* strings that differ from s in letter case only: all lower, all upper,
\* the first letter upper, every second letter upper
caseVariants(s) ==
    {ToLower(s),
     [i \in 1..Len(s) |-> toUpperChar(s[i])],
     [i \in 1..Len(s) |-> IF i = 1 THEN toUpperChar(s[i]) ELSE ToLowerChar(s[i])],
     [i \in 1..Len(s) |-> IF i % 2 = 0 THEN toUpperChar(s[i]) ELSE ToLowerChar(s[i])]}

\* C21: for every corpus, limit and query, SearchFoodsByName returns the
\* list it returned for the query also for the query spelled in another
\* letter case
C21_SearchIgnoresCase ==
    SearchReturned =>
        \A v \in caseVariants(call.args.query) :
            SearchFoodsByName(data, sortTie, v, call.args.limit) = call.ret

\* "MILK" has found a record, and "milk", "Milk" and "mIlK" are other spellings
C21_Witness ==
    /\ SearchReturned
    /\ call.args.query = qMILK
    /\ Len(call.ret.foods) >= 1
    /\ Cardinality(caseVariants(call.args.query)) = 4
    /\ \A v \in caseVariants(call.args.query) :
          SearchFoodsByName(data, sortTie, v, call.args.limit) = call.ret

\* --------------------------------------------------------------- C22
startsWithMilk(description) ==
    LET lowered == ToLower(description)
    IN  Len(lowered) >= 4 /\ SubSeq(lowered, 1, 4) = <<"m", "i", "l", "k">>

mentionsMilkFat(description) ==
    LET lowered == ToLower(description)
    IN  \/ \E k \in 1..(Len(lowered) - 6) :
              SubSeq(lowered, k, k + 6) = <<"m", "i", "l", "k", "f", "a", "t">>
        \/ \E k \in 1..(Len(lowered) - 7) :
              SubSeq(lowered, k, k + 7) = <<"m", "i", "l", "k", " ", "f", "a", "t">>

milkSearch == SearchReturned /\ call.ret.err = Nil /\ ToLower(call.args.query) = qMilk

\* C22: for the query "milk", a record whose description starts with "milk"
\* scores strictly higher than a record that does not start with "milk" and
\* mentions "milkfat" or "milk fat"; "Milk, whole, 3.25% milkfat" scores
\* (500 + 100 + 80) * 2.0 = 1360, and it is the first result of the search
\* over the four-record test corpus
C22_MilkFirstOutranksMilkFat ==
    milkSearch =>
        /\ \A i, j \in 1..Len(corpus) :
              ( /\ startsWithMilk(corpus[i].Description)
                /\ ~startsWithMilk(corpus[j].Description)
                /\ mentionsMilkFat(corpus[j].Description) )
              => RatGT(scoreAt(i, call.args.query), scoreAt(j, call.args.query))
        /\ \A i \in 1..Len(corpus) :
              corpus[i].Description = dMilkWholeMilkfat
              => scoreAt(i, call.args.query) = Rat(1360, 1)
        /\ corpus = testFoods => call.ret.foods[1].Description = dMilkWholeMilkfat

\* "milk" searched over the test corpus, where the cottage cheese mentions
\* "milkfat" and the first record both starts with "milk" and mentions it
C22_Witness ==
    /\ milkSearch
    /\ corpus = testFoods
    /\ startsWithMilk(corpus[1].Description) /\ mentionsMilkFat(corpus[1].Description)
    /\ ~startsWithMilk(corpus[2].Description) /\ mentionsMilkFat(corpus[2].Description)
    /\ RatGT(scoreAt(2, call.args.query), RatZero)
    /\ call.ret.foods[1].Description = dMilkWholeMilkfat

\* --------------------------------------------------------------- C25
startsWith(word, part) == Len(part) <= Len(word) /\ SubSeq(word, 1, Len(part)) = part

occursIn(word, part) ==
    \E k \in 0..(Len(word) - Len(part)) : SubSeq(word, k + 1, k + Len(part)) = part

\* What the description word at 0-based index i contributes for a query word
contributionAt(descWord, queryWord, i) ==
    CASE descWord = queryWord -> IF i < 3 THEN 50 + (3 - i) * 10 ELSE 50
      [] descWord # queryWord /\ startsWith(descWord, queryWord) /\ Len(queryWord) >= 3 ->
            IF i < 3 THEN 25 + (3 - i) * 5 ELSE 25
      [] /\ descWord # queryWord
         /\ ~(startsWith(descWord, queryWord) /\ Len(queryWord) >= 3)
         /\ occursIn(descWord, queryWord) /\ Len(queryWord) >= 4 -> 10
      [] OTHER -> 0

contribution(queryWord, descWords) ==
    LET all == {contributionAt(descWords[i], queryWord, i - 1) : i \in 1..Len(descWords)}
    IN  IF all = {} THEN 0 ELSE CHOOSE m \in all : \A x \in all : x <= m

contributions(description, query) ==
    [k \in 1..Len(queryWordsOf(query)) |->
        contribution(queryWordsOf(query)[k], descWordsOf(description))]

scored == scoring.done /\ queryWordsOf(scoring.query) # <<>> /\ descWordsOf(scoring.description) # <<>>

\* C25: each query word contributes the largest value any description word
\* gives it (50 + position bonus for an equal word, 25 + position bonus for
\* a word starting with a query word of 3 or more letters, 10 for a word
\* containing a query word of 4 or more letters, else 0); the score is
\* built from the sum of these contributions and from the number of query
\* words whose contribution is positive
C25_PerWordMaximumSummed ==
    scored =>
        /\ wordMatches(queryWordsOf(scoring.query), descWordsOf(scoring.description))
              = contributions(scoring.description, scoring.query)
        /\ scoring.score =
              scoreFromWords(scoring.description, normalizeString(scoring.query),
                             queryWordsOf(scoring.query),
                             contributions(scoring.description, scoring.query))

\* "milkfat, milk" scored for "milk": the first word gives 40 as a prefix,
\* the second 70 as an equal word, and the larger one counts
C25_Witness ==
    /\ scored
    /\ scoring.query = kw_milk
    /\ descWordsOf(scoring.description) = <<kw_milkfat, kw_milk>>
    /\ contributions(scoring.description, scoring.query) = <<70>>
    /\ scoring.score = Rat(2010, 1)

\* --------------------------------------------------------------- C28
plainAnswer == SearchFoodsByName(data, sortTie, call.args.query, call.args.limit)

namesOf(answer) == [i \in 1..Len(answer.resp[1].Foods) |-> answer.resp[1].Foods[i].Name]

descriptionsOf(foods) == [i \in 1..Len(foods) |-> foods[i].Description]

\* C28: SearchFoodsByNameSimplified fails, with no response, exactly when
\* SearchFoodsByName fails for the same query and limit, and with the same
\* error; otherwise its foods are named, one for one and in rank order, by
\* the descriptions of the records SearchFoodsByName returns, under the
\* filter of the call and under every other filter
C28_SimplifiedFollowsSearch ==
    SimplifiedReturned =>
        /\ (call.ret.err # Nil) <=> (plainAnswer.err # Nil)
        /\ call.ret.err = plainAnswer.err
        /\ call.ret.err # Nil => call.ret.resp = <<>>
        /\ call.ret.err = Nil =>
              /\ Len(call.ret.resp) = 1
              /\ namesOf(call.ret) = descriptionsOf(plainAnswer.foods)
              /\ \A f \in FilterPool :
                    namesOf(SearchFoodsByNameSimplified(data, sortTie, call.args.query,
                                                        call.args.limit, f))
                      = descriptionsOf(plainAnswer.foods)

\* Two records of different descriptions found, under a non-empty filter
C28_Witness ==
    /\ SimplifiedReturned
    /\ call.ret.err = Nil
    /\ call.args.filter # <<>>
    /\ Len(plainAnswer.foods) >= 2
    /\ plainAnswer.foods[1].Description # plainAnswer.foods[2].Description
    /\ namesOf(call.ret) = descriptionsOf(plainAnswer.foods)

\* The simplified search has failed as the search does
C28_WitnessError ==
    /\ SimplifiedReturned
    /\ call.ret.err # Nil
    /\ plainAnswer.err = call.ret.err

\* --------------------------------------------------------------- C29
isTrimmed(s) == s = <<>> \/ (s[1] \notin WhiteSpace /\ s[Len(s)] \notin WhiteSpace)

hasNone(s, chars) == \A i \in 1..Len(s) : s[i] \notin chars

upperLetters == {UpperCase[i] : i \in 1..Len(UpperCase)}

RECURSIVE withoutChars(_, _)
withoutChars(s, chars) ==
    IF s = <<>> THEN <<>>
    ELSE IF Head(s) \in chars THEN withoutChars(Tail(s), chars)
    ELSE <<Head(s)>> \o withoutChars(Tail(s), chars)

\* s without the four characters, without surrounding whitespace, in lower case
coreOf(s) == ToLower(TrimSpace(withoutChars(s, {",", ".", "(", ")"})))

\* C29: normalizeString applied to its own result changes nothing; the
\* result has no whitespace at either end, no upper-case letter and none of
\* , . ( ); and two strings that differ only in case, surrounding
\* whitespace and these four characters have the same result
C29_NormalFormIsStable ==
    normal.done =>
        /\ normal.again = normal.output
        /\ isTrimmed(normal.output)
        /\ hasNone(normal.output, upperLetters)
        /\ hasNone(normal.output, {",", ".", "(", ")"})
        /\ \A t \in NormalizeInputs :
              coreOf(t) = coreOf(normal.input) => normalizeString(t) = normal.output

\* What does hold: the result has no upper-case letter and none of , . ( ),
\* and the results of the test table are the ones the test expects
C29_NoUpperNoPunctuation ==
    normal.done =>
        /\ hasNone(normal.output, upperLetters)
        /\ hasNone(normal.output, {",", ".", "(", ")"})
        /\ normal.input = tEggsPadded => normal.output = <<"e", "g", "g", "s">>

\* ", a" has become " a", which normalizeString turns into "a"
C29_LeadingSpaceLeft ==
    /\ normal.done
    /\ normal.input = <<",", " ", "a">>
    /\ normal.output = <<" ", "a">>
    /\ normal.again = <<"a">>

\* --------------------------------------------------------------- C30
passedOn(op) == {i \in 1..Len(recorder.wrapped) : recorder.wrapped[i].op = op}

RECURSIVE returnedBytes(_)
returnedBytes(log) ==
    IF log = <<>> THEN 0
    ELSE (IF Head(log).op = "Write" THEN Head(log).n ELSE 0) + returnedBytes(Tail(log))

\* C30: after any calls on a responseRecorder, the wrapped writer has seen
\* at most one WriteHeader, before every Write it has seen; statusCode is
\* the code of the first call if that was a WriteHeader and 200 if it was a
\* Write, whatever was called later; bytesWritten is the sum of the counts
\* the wrapped writer returned
C30_RecorderKeepsFirstStatus ==
    /\ Cardinality(passedOn("WriteHeader")) <= 1
    /\ \A w \in passedOn("Write") : \E h \in passedOn("WriteHeader") : h < w
    /\ recorder.calls # <<>> =>
          recorder.statusCode = IF recorder.calls[1].op = "WriteHeader"
                                THEN recorder.calls[1].code ELSE StatusOK
    /\ recorder.bytesWritten = returnedBytes(recorder.calls)
    /\ recorder.bytesWritten = returnedBytes(recorder.wrapped)

\* WriteHeader(401), a Write that returned 1 byte of 2, then WriteHeader(200)
C30_Witness ==
    /\ recorder.calls = <<WriteHeaderCall(StatusUnauthorized), WriteCall(2, 1),
                          WriteHeaderCall(StatusOK)>>
    /\ recorder.statusCode = StatusUnauthorized
    /\ recorder.wrapped = <<WriteHeaderCall(StatusUnauthorized), WriteCall(2, 1)>>
    /\ recorder.bytesWritten = 1

\* Write first: 200 is recorded and passed on before the data
C30_WitnessWriteFirst ==
    /\ recorder.calls = <<WriteCall(1, 1), WriteHeaderCall(StatusInternalServerError)>>
    /\ recorder.statusCode = StatusOK
    /\ recorder.wrapped = <<WriteHeaderCall(StatusOK), WriteCall(1, 1)>>

\* --------------------------------------------------------------- C27
EnvKeys == {keyPort, keyToken}

\* The key and value a line of the file gives, if it is neither blank nor a
\* comment and has an '='
isAssignment(text) ==
    /\ TrimSpace(text) # <<>>
    /\ TrimSpace(text)[1] # "#"
    /\ \E i \in 1..Len(text) : text[i] = "="

equalsAt(text) == CHOOSE i \in 1..Len(text) : text[i] = "=" /\ \A j \in 1..(i - 1) : text[j] # "="

keyOf(text) == TrimSpace(SubSeq(text, 1, equalsAt(text) - 1))
valueOf(text) == TrimSpace(SubSeq(text, equalsAt(text) + 1, Len(text)))

\* the lines, in file order, that give key a non-empty value
giving(lines, key) ==
    {i \in 1..Len(lines) :
        isAssignment(lines[i].text) /\ keyOf(lines[i].text) = key /\ valueOf(lines[i].text) # <<>>}

firstOf(indices) == CHOOSE i \in indices : \A j \in indices : i <= j

sameEnvironment == \A k \in EnvKeys : Getenv(environ.env, k) = Getenv(environ.before, k)

\* C27: after the .env file is loaded, a variable that had a non-empty value
\* has it still; a variable that was unset or empty has the value of the
\* first line of the file that gives it a non-empty value; a file of blank
\* lines, comments and lines without '=' changes nothing, and neither does a
\* missing file
C27_EnvFileNeverOverrides ==
    environ.loaded =>
        /\ \A k \in EnvKeys :
              Getenv(environ.before, k) # <<>> => Getenv(environ.env, k) = Getenv(environ.before, k)
        /\ \A k \in EnvKeys :
              ( /\ Getenv(environ.before, k) = <<>>
                /\ ~environ.file.missing
                /\ giving(environ.file.lines, k) # {} )
              => Getenv(environ.env, k)
                   = valueOf(environ.file.lines[firstOf(giving(environ.file.lines, k))].text)
        /\ ( /\ ~environ.file.missing
             /\ \A i \in 1..Len(environ.file.lines) : ~isAssignment(environ.file.lines[i].text) )
           => sameEnvironment
        /\ environ.file.missing => sameEnvironment

\* the lines the scanner hands to the loop: those ahead of the first line
\* of more than 64 KiB
delivered(lines) ==
    LET long == {i \in 1..Len(lines) : lines[i].tooLong}
    IN  IF long = {} THEN lines ELSE SubSeq(lines, 1, firstOf(long) - 1)

settable(lines, key) ==
    {i \in giving(lines, key) : \A j \in 1..Len(valueOf(lines[i].text)) : valueOf(lines[i].text)[j] # NUL}

\* What holds: a non-empty variable is never overridden, and an unset or
\* empty one takes the first settable value among the delivered lines
C27_FirstDeliveredValueWins ==
    environ.loaded =>
        /\ \A k \in EnvKeys :
              Getenv(environ.before, k) # <<>> => Getenv(environ.env, k) = Getenv(environ.before, k)
        /\ \A k \in EnvKeys :
              ( /\ Getenv(environ.before, k) = <<>>
                /\ ~environ.file.missing
                /\ settable(delivered(environ.file.lines), k) # {} )
              => Getenv(environ.env, k)
                   = valueOf(environ.file.lines[firstOf(settable(delivered(environ.file.lines), k))].text)
        /\ environ.file.missing => sameEnvironment

\* PORT is unset, a comment line of more than 64 KiB precedes "PORT=1", and
\* PORT is still unset after the load
C27_LongLineHidesTheRest ==
    /\ environ.loaded
    /\ Getenv(environ.before, keyPort) = <<>>
    /\ environ.file.lines = <<LongLine(<<"#">>), EnvLine(keyPort \o <<"=", "1">>)>>
    /\ Getenv(environ.env, keyPort) = <<>>

\* --------------------------------------------------------------- C23
servedMcp == http.served > 0 /\ http.req.path = "/mcp"

\* the request carries "Authorization: Bearer <the server's token>"
presentsToken ==
    /\ http.req.hasAuthorization
    /\ Len(http.req.authorization) = 7 + Len(http.token)
    /\ SubSeq(http.req.authorization, 1, 7) = <<"B", "e", "a", "r", "e", "r", " ">>
    /\ SubSeq(http.req.authorization, 8, Len(http.req.authorization)) = http.token

\* C23: a request to /mcp is forwarded to the MCP server only if it presents
\* the server's bearer token; one that has no Authorization header or
\* another token is answered 401 "Unauthorized", is not forwarded, and no
\* tool handler runs for it
C23_OnlyAuthorizedForwarded ==
    servedMcp =>
        /\ http.forwarded => presentsToken
        /\ http.ran => http.forwarded
        /\ ~presentsToken =>
              /\ http.status = StatusUnauthorized
              /\ http.body = bodyUnauthorized
              /\ ~http.forwarded
              /\ ~http.ran

\* A POST with a wrong token, after an earlier request was forwarded and its
\* tool call ran: answered 401 and not forwarded
C23_Witness ==
    /\ servedMcp
    /\ http.served = 2
    /\ call.op = "handleFoodSearch"
    /\ http.req.method = "POST"
    /\ http.req.hasAuthorization
    /\ ~presentsToken
    /\ http.status = StatusUnauthorized
    /\ ~http.forwarded

\* --------------------------------------------------------------- C24
tokenUnset == environ.loaded /\ Getenv(environ.env, keyToken) = <<>>

\* C24: when FOUNDATIONFOODS_MCP_TOKEN is set neither in the environment
\* nor in .env, the configuration holds no token and the server forwards no
\* request to /mcp
C24_NoTokenWithoutVariable ==
    (http.pos = "serving" /\ tokenUnset) =>
        /\ environ.config.AuthToken = <<>>
        /\ servedMcp => ~http.forwarded

\* The variable is unset and "Bearer super-secret-token" has been forwarded
C24_DefaultTokenAccepted ==
    /\ tokenUnset
    /\ servedMcp
    /\ http.req.authorization = bearerScheme \o defaultToken
    /\ http.forwarded
    /\ http.ran

\* --------------------------------------------------------------- C26
fdcIdsUpTo(n) == [k \in 1..n |-> data.FoundationFoods[k].FdcId]

\* the records a search in its loop has still to read
remaining(t) == Len(data.FoundationFoods) + 1 - threads[t].i

\* what holds of a search in its loop
loopSound(t) ==
    threads[t].pc = "scan" =>
        /\ remaining(t) >= 0
        /\ threads[t].visited = fdcIdsUpTo(threads[t].i - 1)
        /\ canScan(t) \/ canFinish(t)

\* what holds of a finished search (which always has a step left: its return)
doneSound(t) ==
    threads[t].pc = "done" =>
        /\ canReturn(t)
        /\ threads[t].ret = aloneAnswer(threads[t])
        /\ ~data.isNil => threads[t].visited = fdcIdsUpTo(Len(data.FoundationFoods))

\* C26: a search in its loop has read the records ahead of its position,
\* each once and in stored order, and can always take a step, whether or
\* not its context is cancelled; each of its steps reads the next record
\* and leaves one record fewer to read, or finishes the call when none is
\* left; a finished search has read the whole corpus and holds the answer
\* of an undisturbed call
C26_ScanRunsToCompletion ==
    [][\A t \in Threads :
          /\ loopSound(t)
          /\ loopSound(t)'
          /\ doneSound(t)
          /\ (threads[t].pc = "scan" /\ threads'[t].ctxDone = threads[t].ctxDone
                 /\ threads'[t] # threads[t]) =>
                \/ /\ threads'[t].pc = "scan"
                    /\ remaining(t) > 0
                    /\ remaining(t)' = remaining(t) - 1
                    /\ threads'[t].visited
                         = Append(threads[t].visited, data.FoundationFoods[threads[t].i].FdcId)
                \/ /\ threads'[t].pc = "done"
                    /\ remaining(t) = 0]_vars

\* A search of the test corpus, cancelled while in its loop, has finished
\* with both "whole" records after reading the four records in order
C26_Witness ==
    \E t \in Threads :
        /\ threads[t].pc = "done"
        /\ threads[t].ctxDone
        /\ data = LoadedData(testFoods)
        /\ threads[t].visited = <<1, 2, 3, 4>>
        /\ Len(threads[t].ret.foods) = 2
        /\ threads[t].ret = aloneAnswer(threads[t])

====
